---- MODULE Spec2Model ----
(***************************************************************************)
(* Job monitoring coordinator of the Duplicati integration                 *)
(* (custom_components/duplicati/coordinator.py).                           *)
(*                                                                         *)
(* The coordinator runs on a single-threaded cooperative scheduler.  Every *)
(* handler is a task that runs atomically between two suspension points    *)
(* (an awaited API call or an asyncio.sleep); tasks interleave only there. *)
(* Coroutines that contain no await of their own (_start_active_monitoring,*)
(* _stop_active_monitoring, _schedule_future_monitoring, the cleanups) run *)
(* to completion inside the step of the task that calls them.              *)
(*                                                                         *)
(* Time is counted in units of the 500 ms buffer that is added to a        *)
(* scheduled run time.  A sleep is a suspension point: the clock advances  *)
(* by the separate Tick step, the sleeping task resumes at a later step.   *)
(* The length of a sleep and the period of the interval timer are not      *)
(* measured against the clock: a sleeper may wake, and the interval timer  *)
(* may fire, at any step.  Only a point-in-time timer waits for its time.  *)
(* The timers registered with the host's event loop are kept in a pool of  *)
(* their own (point_timers, interval_timers), apart from the cancel        *)
(* handles the coordinator holds, so that a timer that is registered but   *)
(* no longer referenced by a handle is visible.                            *)
(*                                                                         *)
(* The steps are those of the regular poll, the fast-poll check, the       *)
(* scheduled-time handler with its retry loop, the error handler and       *)
(* async_unload.  start_monitoring, which nothing in the repository calls, *)
(* is not among them.                                                      *)
(***************************************************************************)
EXTENDS Integers, Sequences, FiniteSets, TLC

\* ---------------------------------------------------------------- bounds
\* Clock horizon, in units of 500 ms.
MaxTime == 2
\* Number of handler tasks that may be in flight at once, and of regular
\* polls and of scheduled-start checks among them.
MaxTasks == 2
MaxPolls == 1
MaxChecks == 1
\* Retries of the scheduled-start detection (max_retries); const.py of the
\* source tree does not carry the value, the loop is modelled for this one.
MONITORING_DETECTION_CHECK_RETRIES == 1

\* -------------------------------------------------------------- constants
\* None, for an optional datetime or an optional cancel handle.
NONE == 0
\* timedelta(milliseconds=500), one unit of time.
SCHEDULE_BUFFER == 1

ScheduleTimes == 1..MaxTime
FireTimes == 1..(MaxTime + SCHEDULE_BUFFER)
TaskIds == 1..MaxTasks
MonitoringState == {"IDLE", "SCHEDULED", "ACTIVE"}
Phases == {"Backup_ProcessingFiles", "Backup_Complete", "Error"}
BackupIds == {"this", "other"}

VARIABLES
    now,                                     \* datetime.now(UTC)
    monitoring_state,                        \* self._monitoring_state
    next_backup_execution,                   \* self._next_backup_execution
    monitoring_scheduled_for,                \* self._monitoring_scheduled_for
    remove_scheduled_backup_listener,        \* cancel handle: fire time of its timer, or NONE
    remove_active_backup_monitor_listener,   \* cancel handle: TRUE when held
    point_timers,                            \* pending async_track_point_in_time timers, per fire time
    interval_timers,                         \* pending async_track_time_interval timers
    data,                                    \* self.data, the published snapshot
    task,                                    \* the handler tasks in flight
    unloaded,                                \* async_unload has been called
    completed,                               \* a completion sequence has begun since ACTIVE was last entered
    ev,                                      \* the handler step that led to this state
    watch,                                   \* "order" when the fetch start times are recorded
    listeners,                               \* the subscribers to the published snapshots
    wait,                                    \* the frame of start_monitoring_and_wait
    http,                                    \* the HttpClient and the frame of make_request
    cm,                                      \* a CookieManager and one call of extract_and_update_cookies
    auth,                                    \* an authentication strategy and one call of it
    api,                                     \* the DuplicatiBackendAPI and one call of it
    model,                                   \* a vendor payload and what model.py makes of it
    service,                                 \* the DuplicatiService and one call of it
    job                                      \* "finished" once the server no longer runs the job

coordVars == <<monitoring_state, next_backup_execution, monitoring_scheduled_for,
               remove_scheduled_backup_listener, remove_active_backup_monitor_listener,
               point_timers, interval_timers>>
vars == <<now, monitoring_state, next_backup_execution, monitoring_scheduled_for,
          remove_scheduled_backup_listener, remove_active_backup_monitor_listener,
          point_timers, interval_timers, data, task, unloaded, completed, ev, watch,
          listeners, wait, http, cm, auth, api, model, service, job>>

\* What the handlers of the coordinator leave alone.
auxVars == <<listeners, wait, http, cm, auth, api, model, service, job>>

\* ------------------------------------------------------------ coordinator
\* The coordinator's fields and the event loop's timers as one record, with
\* the number of timers cancelled and armed by the step being computed.
Self ==
    [ monitoring_state |-> monitoring_state,
      next_backup_execution |-> next_backup_execution,
      monitoring_scheduled_for |-> monitoring_scheduled_for,
      remove_scheduled_backup_listener |-> remove_scheduled_backup_listener,
      remove_active_backup_monitor_listener |-> remove_active_backup_monitor_listener,
      point_timers |-> point_timers,
      interval_timers |-> interval_timers,
      cancelled |-> 0,
      armed |-> 0 ]

SetSelf(c) ==
    /\ monitoring_state' = c.monitoring_state
    /\ next_backup_execution' = c.next_backup_execution
    /\ monitoring_scheduled_for' = c.monitoring_scheduled_for
    /\ remove_scheduled_backup_listener' = c.remove_scheduled_backup_listener
    /\ remove_active_backup_monitor_listener' = c.remove_active_backup_monitor_listener
    /\ point_timers' = c.point_timers
    /\ interval_timers' = c.interval_timers

SetMonitoringState(c, new_state) ==
    [c EXCEPT !.monitoring_state = new_state]

\* Calling the cancel handle of a point-in-time timer: the timer leaves the
\* pool; the handle of a timer that is gone cancels nothing.
CancelPointTimer(c, at) ==
    IF c.point_timers[at] > 0
    THEN [c EXCEPT !.point_timers[at] = @ - 1, !.cancelled = @ + 1]
    ELSE c

CancelIntervalTimer(c) ==
    IF c.interval_timers > 0
    THEN [c EXCEPT !.interval_timers = @ - 1, !.cancelled = @ + 1]
    ELSE c

\* A cleanup that drops the handle of the one-shot timer without calling it.
CleanupScheduledMonitoring_KeepTimer(c) ==
    LET c1 == [c EXCEPT !.remove_scheduled_backup_listener = NONE]
    IN  IF c1.monitoring_state = "SCHEDULED" THEN SetMonitoringState(c1, "IDLE") ELSE c1

CleanupScheduledMonitoring(c) ==
    LET c1 == IF c.remove_scheduled_backup_listener # NONE
              THEN [CancelPointTimer(c, c.remove_scheduled_backup_listener)
                        EXCEPT !.remove_scheduled_backup_listener = NONE]
              ELSE c
    IN  IF c1.monitoring_state = "SCHEDULED" THEN SetMonitoringState(c1, "IDLE") ELSE c1

CleanupActiveBackupMonitoring(c) ==
    LET c1 == IF c.remove_active_backup_monitor_listener
              THEN [CancelIntervalTimer(c)
                        EXCEPT !.remove_active_backup_monitor_listener = FALSE]
              ELSE c
    IN  SetMonitoringState(c1, "IDLE")

\* A cleanup that forgets the interval listener.
CleanupAllListeners_ScheduledOnly(c) ==
    [CleanupScheduledMonitoring(c) EXCEPT !.monitoring_state = "IDLE"]

CleanupAllListeners(c) ==
    [CleanupActiveBackupMonitoring(CleanupScheduledMonitoring(c))
        EXCEPT !.monitoring_state = "IDLE"]

\* A start that does not clean up the existing listeners first.
StartActiveMonitoring_NoCleanup(c) ==
    IF c.monitoring_state = "ACTIVE"
    THEN c
    ELSE [SetMonitoringState(c, "ACTIVE")
              EXCEPT !.remove_active_backup_monitor_listener = TRUE,
                     !.interval_timers = @ + 1,
                     !.armed = @ + 1]

StartActiveMonitoring(c) ==
    IF c.monitoring_state = "ACTIVE"
    THEN c
    ELSE [SetMonitoringState(CleanupAllListeners(c), "ACTIVE")
              EXCEPT !.remove_active_backup_monitor_listener = TRUE,
                     !.interval_timers = @ + 1,
                     !.armed = @ + 1]

\* A stop that does nothing.
StopActiveMonitoring_Never(c) == c

\* A stop that resets the state and keeps the interval listener.
StopActiveMonitoring_KeepTimer(c) ==
    IF c.monitoring_state # "ACTIVE" THEN c ELSE SetMonitoringState(c, "IDLE")

StopActiveMonitoring(c) ==
    IF c.monitoring_state # "ACTIVE"
    THEN c
    ELSE SetMonitoringState(CleanupActiveBackupMonitoring(c), "IDLE")

\* A scheduling that registers the new timer with the old one left pending.
ScheduleFutureMonitoring_NoCleanup(c) ==
    IF c.next_backup_execution = NONE
    THEN c
    ELSE IF /\ c.monitoring_state = "SCHEDULED"
            /\ c.monitoring_scheduled_for # NONE
            /\ c.monitoring_scheduled_for = c.next_backup_execution
    THEN c
    ELSE LET start_time == c.next_backup_execution + SCHEDULE_BUFFER
         IN  [SetMonitoringState(c, "SCHEDULED")
                  EXCEPT !.monitoring_scheduled_for = c.next_backup_execution,
                         !.remove_scheduled_backup_listener = start_time,
                         !.point_timers[start_time] = @ + 1,
                         !.armed = @ + 1]

ScheduleFutureMonitoring(c) ==
    IF c.next_backup_execution = NONE
    THEN c
    ELSE IF /\ c.monitoring_state = "SCHEDULED"
            /\ c.monitoring_scheduled_for # NONE
            /\ c.monitoring_scheduled_for = c.next_backup_execution
    THEN c
    ELSE LET c1 == CleanupScheduledMonitoring(c)
             start_time == c.next_backup_execution + SCHEDULE_BUFFER
         IN  [SetMonitoringState(c1, "SCHEDULED")
                  EXCEPT !.monitoring_scheduled_for = c.next_backup_execution,
                         !.remove_scheduled_backup_listener = start_time,
                         !.point_timers[start_time] = @ + 1,
                         !.armed = @ + 1]

ManageMonitoringState(c, is_running) ==
    IF is_running /\ c.monitoring_state \in {"IDLE", "SCHEDULED"}
    THEN StartActiveMonitoring(c)
    ELSE IF ~is_running /\ c.monitoring_state = "ACTIVE"
    THEN StopActiveMonitoring(c)
    ELSE c

ManageFutureMonitoring(c, t) ==
    IF c.next_backup_execution = NONE \/ c.next_backup_execution <= t
    THEN c
    ELSE IF /\ c.monitoring_state = "SCHEDULED"
            /\ c.monitoring_scheduled_for # c.next_backup_execution
    THEN ScheduleFutureMonitoring(c)
    ELSE IF c.monitoring_state = "IDLE"
    THEN ScheduleFutureMonitoring(c)
    ELSE c

\* "Reschedule if possible", the tail of the completion, give-up and
\* recovery sequences.
RescheduleIfFuture(c, t) ==
    IF c.next_backup_execution # NONE /\ c.next_backup_execution > t
    THEN ScheduleFutureMonitoring(c)
    ELSE c

\* ------------------------------------------------------------- API replies
\* api.get_backup: an exception or an invalid payload (ok = FALSE), or a
\* BackupDefinition with its schedule time (NONE: no schedule).
BackupResponses ==
    {[ok |-> FALSE, time |-> NONE]}
        \cup {[ok |-> TRUE, time |-> t] : t \in {NONE} \cup ScheduleTimes}

\* api.get_progress_state: an exception or an invalid payload, or a
\* BackupProgress with the id and the phase of the task the server works on:
\* this job in each phase, or another job running.
ProgressResponses ==
    {[ok |-> FALSE, backup_id |-> "this", phase |-> "Error"]}
        \cup {[ok |-> TRUE, backup_id |-> "this", phase |-> p] : p \in Phases}
        \cup {[ok |-> TRUE, backup_id |-> "other", phase |-> "Backup_ProcessingFiles"]}

IsBackupRunning(response, backup_id) ==
    response.backup_id = backup_id /\ response.phase \notin {"Error", "Backup_Complete"}

\* __get_backup_info: the next execution is kept only when it is in the
\* future; the field of the coordinator and the returned sensor data carry
\* the same value.
NextExecutionOf(response, t) ==
    IF response.time # NONE /\ response.time > t THEN response.time ELSE NONE

GetBackupInfo(c, response, t) ==
    [c EXCEPT !.next_backup_execution = NextExecutionOf(response, t)]

\* ------------------------------------------------------------------ tasks
NoTask ==
    [kind |-> "none", pc |-> "idle", retry |-> 0, seq |-> 0, nxt |-> NONE,
     sleeps |-> 0, fetches |-> 0, delay |-> 0]

NoData == [has |-> FALSE, cur |-> FALSE, seq |-> 0]

\* The published snapshot: its current-status flag, and the start of the
\* fetch it derives from.
Snapshot(cur, seq) == [has |-> TRUE, cur |-> cur, seq |-> seq]

HasFree == \E i \in TaskIds : task[i].kind = "none"
InFlight(kind) == Cardinality({i \in TaskIds : task[i].kind = kind})
LowestFree == CHOOSE i \in TaskIds :
                 /\ task[i].kind = "none"
                 /\ \A j \in TaskIds : task[j].kind = "none" => i <= j

\* Tasks of the same kind and position are interchangeable: the tasks are
\* kept in the order of this key.
Index(x, seq) == CHOOSE k \in 1..Len(seq) : seq[k] = x
TaskKey(t) ==
    LET kind == Index(t.kind, <<"none", "poll", "fast", "sched">>)
        pc   == Index(t.pc, <<"idle", "get_backup", "get_progress", "sleep", "final_backup",
                              "final_progress", "giveup_backup", "recover">>)
    IN  (((((kind * 16 + pc) * 16 + t.retry) * 16 + t.seq) * 16 + t.nxt) * 16
            + t.sleeps) * 16 + t.fetches
Sorted(tk) ==
    LET p == CHOOSE q \in Permutations(TaskIds) :
                 \A i, j \in TaskIds : i < j => TaskKey(tk[q[i]]) <= TaskKey(tk[q[j]])
    IN  [i \in TaskIds |-> tk[p[i]]]

\* Fetch start times are kept as ranks: only their order is observable.
\* They are recorded under SpecOrder only, and are 0 elsewhere.
UsedSeqs(tk, d) == {0, d.seq} \cup {tk[i].seq : i \in TaskIds}
Rank(v, U) == IF watch = "order" THEN Cardinality({u \in U : u < v}) ELSE 0
NewSeq ==
    LET U == UsedSeqs(task, data)
    IN  1 + (CHOOSE m \in U : \A u \in U : u <= m)

\* The record of a step: the handler that ran (op), the task that ran it (its
\* index before the step, 0 when no task did), the outcome of its
\* running-check (FALSE when it made none), the number of timers it cancelled
\* and armed, whether the snapshot it published was stale, and whether the
\* handler ends by raising: _async_update_data re-raises the error as
\* UpdateFailed once _handle_error has returned, the timer-driven handlers
\* end with _handle_error, which catches the error of its own recovery.
Quiet ==
    [op |-> "step", actor |-> 0, run |-> FALSE, cancelled |-> 0, armed |-> 0,
     stale |-> FALSE, raised |-> FALSE]

Ev(op, i, run, c1, stale) ==
    [op |-> op, actor |-> i, run |-> run, cancelled |-> c1.cancelled, armed |-> c1.armed,
     stale |-> stale,
     raised |-> op \in {"recovered", "recover_failed"} /\ task[i].kind = "poll"]

\* A snapshot is stale when the fetch it derives from started before the
\* fetch of the snapshot that is published already.
IsStale(seq) == data.has /\ seq < data.seq

\* The effect of one handler step: the coordinator's fields and timers, the
\* tasks, the published snapshot and the record of the step.
Commit(c, tk, d, e, n) ==
    LET U == UsedSeqs(tk, d)
    IN  /\ SetSelf(c)
        /\ task' = Sorted([i \in TaskIds |-> [tk[i] EXCEPT !.seq = Rank(@, U)]])
        /\ data' = [d EXCEPT !.seq = Rank(@, U)]
        /\ ev' = e
        /\ completed' =
              IF monitoring_state # "ACTIVE" /\ c.monitoring_state = "ACTIVE" THEN FALSE ELSE n
        /\ UNCHANGED <<now, unloaded, watch, auxVars>>

\* async_set_updated_data, and the DataUpdateCoordinator storing the result
\* of _async_update_data: self.data is replaced wholesale.
UpdateAndNotify(d) == d

\* An error handler that starts its recovery fetch with the listeners left
\* as they are.
HandleErrorBegin_NoCleanup(i) ==
    LET tk == [task EXCEPT ![i].pc = "recover", ![i].seq = NewSeq, ![i].fetches = @ + 1]
    IN  Commit(Self, tk, data, Ev("error", i, FALSE, Self, FALSE), completed)

\* _handle_error up to its suspension point: all listeners are cleaned up
\* and the recovery fetch is started.
HandleErrorBegin(i) ==
    LET c1 == CleanupAllListeners(Self)
        tk == [task EXCEPT ![i].pc = "recover", ![i].seq = NewSeq, ![i].fetches = @ + 1]
    IN  Commit(c1, tk, data, Ev("error", i, FALSE, c1, FALSE), completed)

\* No cookie stored under a key.
NoCookie == [value |-> "", expires |-> NONE, path |-> <<>>, domain |-> <<>>, secure |-> FALSE]

\* The headers of a request: the X-XSRF-Token header ("" when not set) and
\* the Cookie header, as the key=value pairs it lists ({} when not set).
NoHeaders == [xsrf |-> "", cookie |-> {}]

NoOutcome == [kind |-> "none", type |-> "", status |-> 0]

\* The URL the integration is configured with, as scheme, host labels and
\* path segments.
BaseUrl == [scheme |-> "http", host |-> <<"nas", "lan">>, path |-> <<"api">>]

\* HttpClient.__init__, with no call of make_request in progress.
NoHttp ==
    [stored_cookies |-> [k \in {"xsrf-token", "session-auth"} |-> NoCookie],
     headers |-> "",
     pc |-> "idle", op |-> "init", url |-> BaseUrl, request_headers |-> NoHeaders,
     caller_xsrf |-> "", presented |-> {}, redirect_count |-> 0, outcome |-> NoOutcome]

\* No call of start_monitoring_and_wait is under way.
NoWait ==
    [pc |-> "idle", completion_event |-> FALSE, before |-> {}, observed |-> FALSE,
     waited |-> 0, outcome |-> [kind |-> "none", type |-> "", message |-> "", cause |-> ""]]

\* No CookieManager, strategy or DuplicatiBackendAPI is followed.
NoCm == [pc |-> "none"]
NoAuth == [pc |-> "none"]
NoApi == [pc |-> "none"]
NoModel == [pc |-> "none"]
NoService == [pc |-> "none"]
Rest == model = NoModel /\ service = NoService /\ job = "unknown"
Others == cm = NoCm /\ auth = NoAuth /\ api = NoApi /\ Rest

\* ---------------------------------------------------------------- actions
Start ==
    /\ now = 0
    /\ monitoring_state = "IDLE"
    /\ next_backup_execution = NONE
    /\ monitoring_scheduled_for = NONE
    /\ remove_scheduled_backup_listener = NONE
    /\ remove_active_backup_monitor_listener = FALSE
    /\ point_timers = [at \in FireTimes |-> 0]
    /\ interval_timers = 0
    /\ data = NoData
    /\ task = [i \in TaskIds |-> NoTask]
    /\ unloaded = FALSE
    /\ completed = FALSE
    /\ ev = Quiet
    /\ wait = NoWait
    /\ http = NoHttp

Init == Start /\ watch = "steps" /\ listeners = {} /\ Others
InitOrder == Start /\ watch = "order" /\ listeners = {} /\ Others

\* The clock advances.
Tick ==
    /\ now < MaxTime
    /\ now' = now + 1
    /\ ev' = Quiet
    /\ UNCHANGED <<coordVars, data, task, unloaded, completed, watch, auxVars>>

\* async_refresh: the regular poll (the update interval, or a refresh that a
\* service requests) enters _async_update_data and suspends in get_backup.
\* The host requests no refresh of a coordinator it has unloaded.
StartPoll ==
    /\ ~unloaded
    /\ HasFree
    /\ InFlight("poll") < MaxPolls
    /\ LET i == LowestFree
           tk == [task EXCEPT ![i] = [NoTask EXCEPT !.kind = "poll", !.pc = "get_backup",
                                                    !.seq = NewSeq, !.fetches = 1]]
       IN  Commit(Self, tk, data, Quiet, completed)

\* _check_backup_state of the regular poll, first half: __get_backup_info.
PollGetBackup(i) ==
    /\ task[i].kind = "poll" /\ task[i].pc = "get_backup"
    /\ \E response \in BackupResponses :
          IF response.ok
          THEN LET c1 == GetBackupInfo(Self, response, now)
                   tk == [task EXCEPT ![i].pc = "get_progress",
                                      ![i].nxt = c1.next_backup_execution]
               IN  Commit(c1, tk, data, Quiet, completed)
          ELSE HandleErrorBegin(i)

\* The regular poll from __is_backup_running to the end of the refresh:
\* the two manage steps, and the returned state stored as self.data.
PollGetProgress(i) ==
    /\ task[i].kind = "poll" /\ task[i].pc = "get_progress"
    /\ \E response \in ProgressResponses :
          IF response.ok
          THEN LET is_running == IsBackupRunning(response, "this")
                   c1 == ManageMonitoringState(Self, is_running)
                   c2 == ManageFutureMonitoring(c1, now)
                   d  == UpdateAndNotify(Snapshot(is_running, task[i].seq))
                   tk == [task EXCEPT ![i] = NoTask]
               IN  Commit(c2, tk, d,
                          Ev("poll_end", i, is_running, c2,
                             IsStale(task[i].seq)),
                          completed)
          ELSE HandleErrorBegin(i)

\* _handle_error after its recovery fetch, in whichever handler it runs.
Recover(i) ==
    /\ task[i].pc = "recover"
    /\ \E response \in BackupResponses :
          IF response.ok
          THEN LET c1 == GetBackupInfo(Self, response, now)
                   c2 == RescheduleIfFuture(c1, now)
                   d  == UpdateAndNotify(Snapshot(FALSE, task[i].seq))
                   tk == [task EXCEPT ![i] = NoTask]
               IN  Commit(c2, tk, d,
                          Ev("recovered", i, FALSE, c2,
                             IsStale(task[i].seq)),
                          completed)
          ELSE Commit(Self, [task EXCEPT ![i] = NoTask], data,
                      Ev("recover_failed", i, FALSE, Self, FALSE), completed)

\* The interval timer fires: _check_active_backup and the entry of
\* _async_check_active_backup, both guarded by the ACTIVE state.
IntervalFires ==
    /\ interval_timers > 0
    /\ IF monitoring_state # "ACTIVE"
       THEN Commit(Self, task, data, Ev("interval_skipped", 0, FALSE, Self, FALSE),
                   completed)
       ELSE /\ HasFree
            /\ LET i == LowestFree
                   tk == [task EXCEPT ![i] = [NoTask EXCEPT !.kind = "fast",
                                                            !.pc = "get_progress"]]
               IN  Commit(Self, tk, data, Quiet, completed)

\* A running-branch that stops the active monitoring.
StillRunning_Stops(c) == StopActiveMonitoring(c)

\* The backup is still running: the check logs "Backup still running".
StillRunning(c) == c

\* _async_check_active_backup after its running-check.
FastGetProgress(i) ==
    /\ task[i].kind = "fast" /\ task[i].pc = "get_progress"
    /\ \E response \in ProgressResponses :
          IF ~response.ok
          THEN HandleErrorBegin(i)
          ELSE IF IsBackupRunning(response, "this")
          THEN LET c1 == StillRunning(Self)
               IN  Commit(c1, [task EXCEPT ![i] = NoTask], data,
                          Ev("fast_running", i, TRUE, c1, FALSE), completed)
          ELSE LET c1 == StopActiveMonitoring(Self)
                   tk == [task EXCEPT ![i].pc = "sleep", ![i].sleeps = @ + 1]
               IN  Commit(c1, tk, data,
                          Ev("fast_finished", i, FALSE, c1, FALSE),
                          TRUE)

\* The grace period is over: _check_backup_state starts the full refetch.
FastWake(i) ==
    /\ task[i].kind = "fast" /\ task[i].pc = "sleep"
    /\ LET tk == [task EXCEPT ![i].pc = "final_backup", ![i].seq = NewSeq,
                              ![i].fetches = @ + 1]
       IN  Commit(Self, tk, data, Quiet, completed)

FastFinalBackup(i) ==
    /\ task[i].kind = "fast" /\ task[i].pc = "final_backup"
    /\ \E response \in BackupResponses :
          IF response.ok
          THEN LET c1 == GetBackupInfo(Self, response, now)
                   tk == [task EXCEPT ![i].pc = "final_progress",
                                      ![i].nxt = c1.next_backup_execution]
               IN  Commit(c1, tk, data, Quiet, completed)
          ELSE HandleErrorBegin(i)

\* The final state is published and the next backup is scheduled.
FastFinalProgress(i) ==
    /\ task[i].kind = "fast" /\ task[i].pc = "final_progress"
    /\ \E response \in ProgressResponses :
          IF response.ok
          THEN LET is_running == IsBackupRunning(response, "this")
                   c1 == RescheduleIfFuture(Self, now)
                   d  == UpdateAndNotify(Snapshot(is_running, task[i].seq))
                   tk == [task EXCEPT ![i] = NoTask]
               IN  Commit(c1, tk, d,
                          Ev("fast_final", i, is_running, c1,
                             IsStale(task[i].seq)),
                          completed)
          ELSE HandleErrorBegin(i)

\* The point-in-time timer fires: _handle_scheduled_time, and the start of
\* _check_for_scheduled_backup(retry = 0) up to its running-check.
PointTimerFires(at) ==
    /\ point_timers[at] > 0
    /\ now >= at
    /\ HasFree
    /\ InFlight("sched") < MaxChecks
    /\ LET fired == [Self EXCEPT !.point_timers[at] = @ - 1]
           c1 == [SetMonitoringState(fired, "IDLE")
                     EXCEPT !.remove_scheduled_backup_listener = NONE]
           i  == LowestFree
           tk == [task EXCEPT ![i] = [NoTask EXCEPT !.kind = "sched",
                                                    !.pc = "get_progress"]]
       IN  Commit(c1, tk, data, Ev("timer_fired", 0, FALSE, c1, FALSE),
                  completed)

\* delay = 2 ** (retry - 1) seconds, in units of 500 ms.
BackoffDelay(retry) == 2 ^ retry

\* _check_for_scheduled_backup after its running-check: the running backup
\* is detected, or a further check is scheduled, or the retries are used up.
SchedGetProgress(i) ==
    /\ task[i].kind = "sched" /\ task[i].pc = "get_progress"
    /\ \E response \in ProgressResponses :
          IF ~response.ok
          THEN HandleErrorBegin(i)
          ELSE IF IsBackupRunning(response, "this")
          THEN LET d  == UpdateAndNotify(Snapshot(TRUE, data.seq))
                   c1 == StartActiveMonitoring(Self)
               IN  Commit(c1, [task EXCEPT ![i] = NoTask], d,
                          Ev("detected", i, TRUE, c1, FALSE), completed)
          ELSE IF task[i].retry < MONITORING_DETECTION_CHECK_RETRIES
          THEN LET tk == [task EXCEPT ![i].pc = "sleep", ![i].sleeps = @ + 1,
                                      ![i].delay = BackoffDelay(task[i].retry)]
               IN  Commit(Self, tk, data, Quiet, completed)
          ELSE IF task[i].retry = MONITORING_DETECTION_CHECK_RETRIES
          THEN LET c1 == StopActiveMonitoring(Self)
                   tk == [task EXCEPT ![i].pc = "giveup_backup", ![i].seq = NewSeq,
                                      ![i].fetches = @ + 1]
               IN  Commit(c1, tk, data,
                          Ev("max_retries", i, FALSE, c1, FALSE), completed)
          ELSE Commit(Self, [task EXCEPT ![i] = NoTask], data, Quiet, completed)

\* The backoff delay is over: _check_for_scheduled_backup(retry + 1).
SchedWake(i) ==
    /\ task[i].kind = "sched" /\ task[i].pc = "sleep"
    /\ LET tk == [task EXCEPT ![i].pc = "get_progress", ![i].retry = @ + 1,
                              ![i].delay = 0]
       IN  Commit(Self, tk, data, Quiet, completed)

\* __handle_max_retries_reached after its full refetch.
SchedGiveupBackup(i) ==
    /\ task[i].kind = "sched" /\ task[i].pc = "giveup_backup"
    /\ \E response \in BackupResponses :
          IF response.ok
          THEN LET c1 == GetBackupInfo(Self, response, now)
                   c2 == RescheduleIfFuture(c1, now)
                   d  == UpdateAndNotify(Snapshot(FALSE, task[i].seq))
                   tk == [task EXCEPT ![i] = NoTask]
               IN  Commit(c2, tk, d,
                          Ev("gave_up", i, FALSE, c2,
                             IsStale(task[i].seq)),
                          completed)
          ELSE HandleErrorBegin(i)

\* async_unload.
AsyncUnload ==
    /\ LET c1 == CleanupAllListeners(Self)
       IN  /\ SetSelf(c1)
           /\ ev' = Ev("unload", 0, FALSE, c1, FALSE)
           /\ unloaded' = TRUE
           /\ UNCHANGED <<now, data, task, completed, watch, auxVars>>

Next ==
    \/ Tick
    \/ StartPoll
    \/ \E i \in TaskIds : PollGetBackup(i)
    \/ \E i \in TaskIds : PollGetProgress(i)
    \/ \E i \in TaskIds : Recover(i)
    \/ IntervalFires
    \/ \E i \in TaskIds : FastGetProgress(i)
    \/ \E i \in TaskIds : FastWake(i)
    \/ \E i \in TaskIds : FastFinalBackup(i)
    \/ \E i \in TaskIds : FastFinalProgress(i)
    \/ \E at \in FireTimes : PointTimerFires(at)
    \/ \E i \in TaskIds : SchedGetProgress(i)
    \/ \E i \in TaskIds : SchedWake(i)
    \/ \E i \in TaskIds : SchedGiveupBackup(i)
    \/ AsyncUnload

Spec == Init /\ [][Next]_vars

\* The same coordinator, with the start time of every fetch recorded.
SpecOrder == InitOrder /\ [][Next]_vars

\* The coordinator of a job that finishes for good: up to that point the
\* progress answers are any, from it on none names the job as running.  The
\* coordinator stays loaded, and the clock stands still, so that no run time
\* comes due: the handlers that run are the regular poll, the fast-poll
\* check and the error recovery.
JobFinishes ==
    /\ job = "unknown"
    /\ job' = "finished"
    /\ UNCHANGED <<now, coordVars, data, task, unloaded, completed, ev, watch,
                   listeners, wait, http, cm, auth, api, model, service>>

AnswersFinished == job = "finished" => ~ev'.run

LivePollGetProgress(i) == PollGetProgress(i) /\ AnswersFinished
LiveFastGetProgress(i) == FastGetProgress(i) /\ AnswersFinished
LiveFastFinalProgress(i) == FastFinalProgress(i) /\ AnswersFinished

NextLive ==
    \/ JobFinishes
    \/ StartPoll
    \/ \E i \in TaskIds : PollGetBackup(i)
    \/ \E i \in TaskIds : LivePollGetProgress(i)
    \/ \E i \in TaskIds : Recover(i)
    \/ IntervalFires
    \/ \E i \in TaskIds : LiveFastGetProgress(i)
    \/ \E i \in TaskIds : FastWake(i)
    \/ \E i \in TaskIds : FastFinalBackup(i)
    \/ \E i \in TaskIds : LiveFastFinalProgress(i)

\* A handler resumes: the call or the sleep it awaits has ended.
HandlerStep ==
    \E i \in TaskIds :
        \/ PollGetBackup(i) \/ LivePollGetProgress(i) \/ Recover(i)
        \/ LiveFastGetProgress(i) \/ FastWake(i) \/ FastFinalBackup(i)
        \/ LiveFastFinalProgress(i)

\* The event loop keeps firing the interval timer while it is pending, and
\* it resumes a handler whose awaited call has ended; every call ends, with
\* an answer or with an error.
FairLive == SF_vars(IntervalFires) /\ WF_vars(HandlerStep)

SpecLive == Init /\ [][NextLive]_vars /\ FairLive

\* ---------------------------------------------- start_monitoring_and_wait
\* start_monitoring_and_wait against the snapshots the coordinator publishes.
\* The handlers that publish are abstracted to the step Publish; a snapshot
\* carries, next to the current-status flag, the last-run-error flag
\* (METRIC_LAST_STATUS) and the last error message, each absent or present.

\* The upper bound of the wait, in steps of the wait clock; const.py of the
\* source tree does not carry the value.
MONITORING_SERVICE_WAIT_TIMEOUT_SECONDS == 2

\* The subscribers besides the one start_monitoring_and_wait registers.
OtherListeners == {"sensor", "binary_sensor"}

DuplicatiCoordinatorException == "DuplicatiCoordinatorException"
TimeoutMessage == "Backup operation timed out"
UnknownError == "Unknown error"

WaitSnapshots ==
    {[has |-> TRUE, cur |-> c, seq |-> 0, err |-> e, msg |-> m] :
        c \in BOOLEAN, e \in {"absent", "false", "true"},
        m \in {"absent", "disk full", TimeoutMessage}}

Returned == [kind |-> "return", type |-> "", message |-> "", cause |-> ""]
Raised(type, message, cause) ==
    [kind |-> "raise", type |-> type, message |-> message, cause |-> cause]

\* backup_state_listener, run on every publish while it is subscribed.
BackupStateListener(d, w) ==
    IF d.has /\ ~d.cur THEN [w EXCEPT !.completion_event = TRUE] ELSE w

\* A check of the final status that takes every end of the wait for success.
FinalStatus_IgnoreError(d) == Returned

\* The check of the final status once the wait has ended.
FinalStatus(d) ==
    IF d.has /\ d.err # "absent" /\ d.err = "true"
    THEN Raised(DuplicatiCoordinatorException,
                IF d.msg = "absent" THEN UnknownError ELSE d.msg, "")
    ELSE Returned

\* A removal that leaves the subscriber in place.
RemoveListener_Keep(ls) == ls

\* remove_listener(), in the finally clause.
RemoveListener(ls) == ls \ {"backup_state_listener"}

waitFrame ==
    <<now, coordVars, task, unloaded, completed, ev, watch, http, cm, auth, api,
      model, service, job>>

InitWait == Start /\ watch = "steps" /\ listeners \in SUBSET OtherListeners /\ Others

\* The call: async_refresh is awaited first.
WaitStart ==
    /\ wait.pc \in {"idle", "done"}
    /\ wait' = [NoWait EXCEPT !.pc = "refresh", !.before = listeners]
    /\ UNCHANGED <<waitFrame, data, listeners>>

\* async_refresh has returned, with a new snapshot or, after a failed
\* update, with the old data; the event is created and the listener added.
WaitRefreshed ==
    /\ wait.pc = "refresh"
    /\ \E d \in WaitSnapshots \cup {data} :
          /\ data' = d
          /\ wait' = [wait EXCEPT !.pc = "waiting", !.observed = d.has /\ d.cur]
    /\ listeners' = listeners \cup {"backup_state_listener"}
    /\ UNCHANGED waitFrame

\* A handler of the coordinator publishes a snapshot; the subscribers run.
Publish ==
    /\ \E d \in WaitSnapshots :
          /\ data' = d
          /\ wait' = IF "backup_state_listener" \in listeners
                     THEN [BackupStateListener(d, wait)
                              EXCEPT !.observed = @ \/ d.cur]
                     ELSE wait
    /\ UNCHANGED <<waitFrame, listeners>>

\* The wait clock advances.
WaitTick ==
    /\ wait.pc = "waiting"
    /\ wait.waited < MONITORING_SERVICE_WAIT_TIMEOUT_SECONDS
    /\ wait' = [wait EXCEPT !.waited = @ + 1]
    /\ UNCHANGED <<waitFrame, data, listeners>>

\* The event is set: wait_for returns and the final status is checked.
WaitCompleted ==
    /\ wait.pc = "waiting"
    /\ wait.completion_event
    /\ wait' = [wait EXCEPT !.pc = "done", !.outcome = FinalStatus(data)]
    /\ listeners' = RemoveListener(listeners)
    /\ UNCHANGED <<waitFrame, data>>

\* The upper bound elapses with the event not set: wait_for raises
\* TimeoutError, which is raised again as DuplicatiCoordinatorException.
WaitTimedOut ==
    /\ wait.pc = "waiting"
    /\ ~wait.completion_event
    /\ wait.waited = MONITORING_SERVICE_WAIT_TIMEOUT_SECONDS
    /\ wait' = [wait EXCEPT !.pc = "done",
                            !.outcome = Raised(DuplicatiCoordinatorException,
                                               TimeoutMessage, "TimeoutError")]
    /\ listeners' = RemoveListener(listeners)
    /\ UNCHANGED <<waitFrame, data>>

\* The caller's task is cancelled at one of the two awaits.
WaitCancelled ==
    /\ wait.pc \in {"refresh", "waiting"}
    /\ wait' = [wait EXCEPT !.pc = "done",
                            !.outcome = Raised("CancelledError", "", "")]
    /\ listeners' = IF wait.pc = "waiting" THEN RemoveListener(listeners) ELSE listeners
    /\ UNCHANGED <<waitFrame, data>>

NextWait ==
    \/ WaitStart
    \/ WaitRefreshed
    \/ Publish
    \/ WaitTick
    \/ WaitCompleted
    \/ WaitTimedOut
    \/ WaitCancelled

SpecWait == InitWait /\ [][NextWait]_vars

\* ------------------------------------------------------------ http_client
\* HttpClient.make_request and the CookieManager.  A URL is a scheme, the
\* labels of its host and the segments of its path; the X-XSRF-Token header
\* is the one header followed, since it is the only one derived from a cookie.

\* The redirect count is followed up to this value and stays there.
MaxRedirectCount == 2

CookieKeys == {"xsrf-token", "session-auth"}

\* The URLs a Location header names; always absolute here.
Urls ==
    {BaseUrl,
     [scheme |-> "http", host |-> <<"other", "net">>, path |-> <<"api">>],
     [scheme |-> "https", host |-> <<"nas", "lan">>, path |-> <<>>]}

\* The expires attribute of a Set-Cookie header: absent, a date in the
\* format the client parses (gmt is the time it names), or a date in another
\* format.
NoExpires == [kind |-> "absent", gmt |-> NONE]
Date(gmt) == [kind |-> "date", gmt |-> gmt]
OtherFormat == [kind |-> "other", gmt |-> NONE]

\* The cookies a response to make_request may set; their dates are in the
\* client's format.
SetCookies ==
    {[key |-> "xsrf-token", value |-> "x1", expires |-> e, path |-> <<>>,
      domain |-> d, secure |-> FALSE] :
        e \in {NoExpires, Date(1)}, d \in {<<>>, <<"nas", "lan">>}}
    \cup
    {[key |-> "session-auth", value |-> "s1", expires |-> Date(1), path |-> <<"api">>,
      domain |-> <<>>, secure |-> FALSE],
     [key |-> "session-auth", value |-> "s2", expires |-> NoExpires, path |-> <<>>,
      domain |-> <<"nas", "lan">>, secure |-> TRUE]}

\* The responses of the server; location is read on a redirect only.
Responses ==
    {r \in [status : {200, 302}, location : Urls,
            cookies : {<<>>} \cup {<<c>> : c \in SetCookies}] :
        r.status = 200 => r.location = BaseUrl}

\* The failures of session.request: the first three are aiohttp.ClientError
\* subclasses; the total timeout of ClientTimeout raises TimeoutError.
ClientErrors ==
    {"ClientConnectorError", "ClientConnectorCertificateError", "ClientConnectorDNSError"}
ConnectionFailures == ClientErrors \cup {"TimeoutError"}

EndsWith(s, t) == Len(t) <= Len(s) /\ SubSeq(s, Len(s) - Len(t) + 1, Len(s)) = t
StartsWith(s, t) == Len(t) <= Len(s) /\ SubSeq(s, 1, Len(t)) = t

Expired(cookie, t) == cookie.expires # NONE /\ cookie.expires < t

CookieMatchesRequest(cookie, url) ==
    IF cookie.domain # <<>> /\ url.host # <<>> /\ ~EndsWith(url.host, cookie.domain)
    THEN FALSE
    ELSE IF ~StartsWith(url.path, cookie.path)
    THEN FALSE
    ELSE ~(cookie.secure /\ url.scheme # "https")

GetValidCookies(h, url) ==
    {k \in CookieKeys : /\ h.stored_cookies[k] # NoCookie
                        /\ CookieMatchesRequest(h.stored_cookies[k], url)}

StoredCookie(c, expires_ts) ==
    [value |-> c.value, expires |-> expires_ts, path |-> c.path,
     domain |-> c.domain, secure |-> c.secure]

\* datetime.strptime(expires_str, ...).timestamp(): strptime returns a
\* datetime without time zone, which timestamp() reads as the local time of
\* a host whose clock is utcoffset ahead of UTC.
Timestamp(gmt, utcoffset) == gmt - utcoffset

\* The local name expires_ts before the loop has assigned it.
Unbound == [bound |-> FALSE, value |-> NONE]

\* The loop of extract_and_update_cookies over the cookies of a response,
\* at time t; expires_ts is the local name as the previous pass left it.
RECURSIVE ExtractCookies(_, _, _, _, _)
ExtractCookies(stored, cookies, t, utcoffset, expires_ts) ==
    IF cookies = <<>> THEN [stored_cookies |-> stored, raised |-> ""]
    ELSE LET c == Head(cookies)
             ts == IF c.expires.kind = "date"
                   THEN [bound |-> TRUE, value |-> Timestamp(c.expires.gmt, utcoffset)]
                   ELSE IF c.expires.kind = "other"
                   THEN expires_ts
                   ELSE [bound |-> TRUE, value |-> NONE]
         IN IF ~ts.bound
            THEN [stored_cookies |-> stored, raised |-> "UnboundLocalError"]
            ELSE LET cookie_data == StoredCookie(c, ts.value)
                 IN ExtractCookies(
                        IF Expired(cookie_data, t)
                        THEN [stored EXCEPT ![c.key] = NoCookie]
                        ELSE IF \/ stored[c.key] = NoCookie
                                \/ stored[c.key].value # cookie_data.value
                                \/ stored[c.key].expires # cookie_data.expires
                             THEN [stored EXCEPT ![c.key] = cookie_data]
                             ELSE stored,
                        Tail(cookies), t, utcoffset, ts)

\* extract_and_update_cookies for the cookies of one response, at time t.
ExtractAndUpdateCookies(stored, cookies, t, utcoffset) ==
    ExtractCookies(stored, cookies, t, utcoffset, Unbound)

\* CookieAuthStrategy.__is_xsrf_token_valid and __is_session_auth_valid:
\* bool(cookie and cookie.value and cookie.expires and cookie.expires > now).
IsCookieValid(stored, key, t) ==
    LET cookie == stored[key]
    IN /\ cookie # NoCookie
       /\ cookie.value # ""
       /\ cookie.expires # NONE
       /\ cookie.expires > t

\* CookieAuthStrategy.is_auth_valid.
CookieIsAuthValid(stored, t) == IsCookieValid(stored, "session-auth", t)

RemoveExpiredCookies(stored, t) ==
    [k \in CookieKeys |-> IF Expired(stored[k], t) THEN NoCookie ELSE stored[k]]

\* dict.update with self.headers.
UpdateHeaders(headers, self_headers) ==
    IF self_headers # "" THEN [headers EXCEPT !.xsrf = self_headers] ELSE headers

\* __prepare_request_headers.
PrepareRequestHeaders(h, url, headers) ==
    LET final == UpdateHeaders(headers, h.headers)
        valid == GetValidCookies(h, url)
        special == IF "xsrf-token" \in valid
                   THEN [final EXCEPT !.xsrf = h.stored_cookies["xsrf-token"].value]
                   ELSE final
    IN IF valid # {}
       THEN [special EXCEPT !.cookie = {<<k, h.stored_cookies[k].value>> : k \in valid}]
       ELSE special

\* make_request up to session.request: the headers are prepared and the
\* request is sent.
SendRequest(h, url, headers, count, op) ==
    [h EXCEPT !.pc = "sent", !.op = op, !.url = url,
              !.request_headers = UpdateHeaders(PrepareRequestHeaders(h, url, headers), h.headers),
              !.presented = GetValidCookies(h, url),
              !.redirect_count = count]

coordFrame == <<coordVars, data, task, unloaded, completed, ev, watch, listeners, wait>>
httpFrame == <<coordFrame, cm, auth, api, model, service, job>>

InitHttp == Start /\ watch = "steps" /\ listeners = {} /\ Others

\* A caller calls make_request for the configured URL, with or without an
\* X-XSRF-Token header of its own.
MakeRequest ==
    /\ http.pc \in {"idle", "done"}
    /\ \E x \in {"", "caller"} :
          http' = SendRequest([http EXCEPT !.outcome = NoOutcome, !.caller_xsrf = x],
                              BaseUrl, [NoHeaders EXCEPT !.xsrf = x], 0, "call")
    /\ UNCHANGED <<now, httpFrame>>

\* The response arrives: the cookies are recorded (on a host whose clock is
\* on UTC) and the expired ones removed; a redirect is followed by the nested call, which is handed the
\* headers of this hop; otherwise the call returns, the response of the
\* first hop when hops were nested.
ResponseArrives ==
    /\ http.pc = "sent"
    /\ \E r \in Responses :
          LET stored == RemoveExpiredCookies(
                            ExtractAndUpdateCookies(http.stored_cookies, r.cookies,
                                                    now, 0).stored_cookies, now)
              h == [http EXCEPT !.stored_cookies = stored]
          IN http' = IF r.status = 302
                     THEN SendRequest(h, r.location, http.request_headers,
                                      IF http.redirect_count < MaxRedirectCount
                                      THEN http.redirect_count + 1
                                      ELSE MaxRedirectCount,
                                      "redirect")
                     ELSE [h EXCEPT !.pc = "done", !.op = "return",
                                    !.outcome = [kind |-> "return", type |-> "HttpResponse",
                                                 status |-> IF http.redirect_count = 0
                                                            THEN r.status ELSE 302]]
    /\ UNCHANGED <<now, httpFrame>>

\* session.request fails on the current hop: a ClientError is raised again
\* as CannotConnect; any other error, and the CannotConnect of a nested
\* hop, passes through the hops above unchanged.
RequestFails ==
    /\ http.pc = "sent"
    /\ \E e \in ConnectionFailures :
          http' = [http EXCEPT !.pc = "done", !.op = "raise",
                               !.outcome = [kind |-> "raise",
                                            type |-> IF e \in ClientErrors
                                                     THEN "CannotConnect" ELSE e,
                                            status |-> 0]]
    /\ UNCHANGED <<now, httpFrame>>

\* add_headers registers an X-XSRF-Token header with the client.
AddHeaders ==
    /\ http.headers = ""
    /\ http' = [http EXCEPT !.headers = "strategy", !.op = "add_headers"]
    /\ UNCHANGED <<now, httpFrame>>

\* dt_util.utcnow() advances.
ClockAdvances ==
    /\ now < MaxTime
    /\ now' = now + 1
    /\ http' = [http EXCEPT !.op = "tick"]
    /\ UNCHANGED httpFrame

NextHttp ==
    \/ MakeRequest
    \/ ResponseArrives
    \/ RequestFails
    \/ AddHeaders
    \/ ClockAdvances

SpecHttp == InitHttp /\ [][NextHttp]_vars

\* ---------------------------------------------------------- cookie store
\* CookieManager.extract_and_update_cookies on its own: a store, the cookies
\* of successive responses, the time of each response and the offset of the
\* host's clock from UTC.

\* The largest time of a response.
MaxCookieTime == 3

CookieTimes == 2..MaxCookieTime
UtcOffsets == {-1, 0, 1}

\* The cookies of one response: response.cookies holds one entry per name.
Morsels ==
    {[key |-> "xsrf-token", value |-> v, expires |-> e, path |-> <<>>,
      domain |-> <<>>, secure |-> FALSE] :
        v \in {"x1", "x2"}, e \in {NoExpires, OtherFormat, Date(2), Date(3)}}
    \cup
    {[key |-> "session-auth", value |-> "s1", expires |-> e, path |-> <<>>,
      domain |-> <<>>, secure |-> FALSE] :
        e \in {OtherFormat, Date(3)}}
ResponseCookies ==
    {<<>>} \cup {<<c>> : c \in Morsels}
           \cup {<<c, d>> : c \in {m \in Morsels : m.key = "session-auth"},
                            d \in {m \in Morsels : m.key = "xsrf-token"}}

cookieFrame == <<now, coordFrame, http, auth, api, model, service, job>>

InitCookies ==
    /\ Start /\ watch = "steps" /\ listeners = {} /\ auth = NoAuth /\ api = NoApi /\ Rest
    /\ \E o \in UtcOffsets :
          cm = [pc |-> "idle", stored_cookies |-> NoHttp.stored_cookies,
                utcoffset |-> o, current_time |-> 2, cookies |-> <<>>,
                before |-> NoHttp.stored_cookies, raised |-> ""]

\* A response with cookies arrives at a time not before the last one.
CookieResponse ==
    /\ cm.pc \in {"idle", "done"}
    /\ \E cs \in ResponseCookies, t \in CookieTimes :
          /\ t >= cm.current_time
          /\ cm' = [cm EXCEPT !.pc = "response", !.cookies = cs, !.current_time = t,
                              !.before = cm.stored_cookies, !.raised = ""]
    /\ UNCHANGED cookieFrame

\* extract_and_update_cookies(response).
ExtractAndUpdate ==
    /\ cm.pc = "response"
    /\ LET result == ExtractAndUpdateCookies(cm.stored_cookies, cm.cookies,
                                             cm.current_time, cm.utcoffset)
       IN cm' = [cm EXCEPT !.pc = "done", !.stored_cookies = result.stored_cookies,
                           !.raised = result.raised]
    /\ UNCHANGED cookieFrame

NextCookies ==
    \/ CookieResponse
    \/ ExtractAndUpdate

SpecCookies == InitCookies /\ [][NextCookies]_vars

\* ------------------------------------------------------- auth_strategies
\* The two strategies.  make_request is taken by its results: a response, of
\* which the status, the cookies and the body are followed, or an error.

\* The largest time on the strategy's clock.
MaxAuthTime == 3

\* An access token, by what the parsing looks at: the number of segments
\* between dots, the header and the payload after base64 and JSON decoding,
\* and the exp claim of a payload that is a JSON object.
ExpAbsent == [kind |-> "absent", value |-> 0]
ExpNull == [kind |-> "null", value |-> 0]
ExpList == [kind |-> "list", value |-> 0]
ExpText == [kind |-> "text", value |-> 0]
ExpDigits(n) == [kind |-> "digits", value |-> n]
ExpNumber(n) == [kind |-> "number", value |-> n]
ExpClaims ==
    {ExpAbsent, ExpNull, ExpList, ExpText}
        \cup {ExpDigits(n) : n \in {2}} \cup {ExpNumber(n) : n \in {1, 2}}

Token(segments, header, payload, exp) ==
    [segments |-> segments, header |-> header, payload |-> payload, exp |-> exp]
NoToken == Token(0, "", "", ExpAbsent)
Tokens ==
    {Token(n, "object", "object", ExpNumber(2)) : n \in {1, 2}}
    \cup {Token(4, "object", p, ExpAbsent) : p \in {"undecodable", "not_json"}}
    \cup {Token(3, h, "object", ExpNumber(2)) : h \in {"undecodable", "array"}}
    \cup {Token(3, "object", p, ExpAbsent) :
              p \in {"undecodable", "not_utf8", "not_json", "array"}}
    \cup {Token(3, "object", "object", e) : e \in ExpClaims}

Ok(value) == [raised |-> "", value |-> value]
Raise(type) == [raised |-> type, value |-> 0]

\* JWTAuthStrategy.__parse_jwt: the payload, or the error raised.
ParseJwt(token) ==
    IF token.segments < 3
    THEN Raise("DecodeError")
    ELSE IF token.header = "undecodable" \/ token.payload = "undecodable"
    THEN Raise("DecodeError")
    ELSE IF token.header # "object"
    THEN Raise("DecodeError")
    ELSE Ok(token.payload)

\* json.loads of the payload bytes.
JsonLoads(payload) ==
    IF payload = "not_utf8" THEN Raise("UnicodeDecodeError")
    ELSE IF payload = "not_json" THEN Raise("JSONDecodeError")
    ELSE Ok(payload)

\* int(payload["exp"]).
IntOf(exp) ==
    IF exp.kind \in {"number", "digits"} THEN Ok(exp.value)
    ELSE IF exp.kind = "text" THEN Raise("ValueError")
    ELSE Raise("TypeError")

\* except (ValueError, jwt.InvalidTokenError).
CaughtByIsAuthValid ==
    {"ValueError", "JSONDecodeError", "UnicodeDecodeError",
     "DecodeError", "MissingRequiredClaimError"}

\* The body of the try statement of JWTAuthStrategy.is_auth_valid.
JwtValidation(token, t) ==
    LET decoded == ParseJwt(token)
        payload == JsonLoads(decoded.value)
        exp == IntOf(token.exp)
    IN IF decoded.raised # "" THEN decoded
       ELSE IF payload.raised # "" THEN payload
       ELSE IF payload.value # "object" THEN Raise("DecodeError")
       ELSE IF token.exp.kind = "absent" THEN Raise("MissingRequiredClaimError")
       ELSE IF exp.raised # "" THEN exp
       ELSE Ok(IF exp.value > t THEN 1 ELSE 0)

\* JWTAuthStrategy.is_auth_valid: what it returns or raises.
JwtIsAuthValid(token, t) ==
    IF token = NoToken THEN [kind |-> "return", value |-> FALSE, type |-> ""]
    ELSE LET r == JwtValidation(token, t)
         IN IF r.raised \in CaughtByIsAuthValid
            THEN [kind |-> "return", value |-> FALSE, type |-> ""]
            ELSE IF r.raised # ""
            THEN [kind |-> "raise", value |-> FALSE, type |-> r.raised]
            ELSE [kind |-> "return", value |-> r.value = 1, type |-> ""]

\* The requests of the two authenticate methods.
AuthRequests == {"xsrf", "nonce", "password", "jwt_login"}

\* The bodies of the server's replies as parse_response_body leaves them: no
\* body, a JSON object without the keys read, one with Salt and Nonce, one
\* with an AccessToken.
Body(kind) == [kind |-> kind, token |-> NoToken]
TokenBody(token) == [kind |-> "access_token", token |-> token]

XsrfCookie(expires) ==
    [key |-> "xsrf-token", value |-> "x1", expires |-> expires, path |-> <<>>,
     domain |-> <<>>, secure |-> FALSE]
SessionAuthCookie ==
    [key |-> "session-auth", value |-> "s1", expires |-> Date(MaxAuthTime),
     path |-> <<>>, domain |-> <<>>, secure |-> FALSE]

\* The replies of the server to a request: any reply may set the
\* xsrf-token cookie; the session-auth cookie comes with the 200 reply to
\* the password POST only, and an AccessToken with the 200 reply to the
\* token login only.
AuthStatuses == {200, 401, 403, 500}
AuthResponses(request) ==
    {r \in [status : AuthStatuses,
            cookies : {<<>>, <<XsrfCookie(NoExpires)>>, <<XsrfCookie(Date(2))>>,
                       <<SessionAuthCookie>>},
            body : {Body("none"), Body("object"), Body("nonce_salt")}
                       \cup {TokenBody(t) : t \in Tokens}] :
        /\ r.cookies = <<SessionAuthCookie>> => request = "password" /\ r.status = 200
        /\ r.body.kind = "access_token" =>
               request = "jwt_login" /\ r.status = 200 /\ r.cookies = <<>>
        /\ r.body.kind = "nonce_salt" => request = "nonce"}

\* What make_request raises instead of returning a response.
MakeRequestRaises ==
    {IF e \in ClientErrors THEN "CannotConnect" ELSE e : e \in ConnectionFailures}

NoResult == [kind |-> "none", value |-> FALSE, type |-> ""]
AuthReturns == [kind |-> "return", type |-> "", status |-> 0]
AuthRaises(type) == [kind |-> "raise", type |-> type, status |-> 0]

\* A strategy after __init__.
NewStrategy(strategy) ==
    [strategy |-> strategy, pc |-> "idle", op |-> "",
     stored_cookies |-> NoHttp.stored_cookies, before |-> NoHttp.stored_cookies,
     access_token |-> NoToken, requests |-> <<>>, status |-> 0, body |-> "",
     outcome |-> NoOutcome, is_valid |-> NoResult]

\* make_request returns response r: the cookies are recorded.
Received(a, r, t) ==
    [a EXCEPT !.status = r.status, !.body = r.body.kind,
              !.stored_cookies =
                  RemoveExpiredCookies(
                      ExtractAndUpdateCookies(a.stored_cookies, r.cookies, t, 0).stored_cookies,
                      t)]

\* The call of make_request for the next request.
Sends(a, request) ==
    [a EXCEPT !.pc = request, !.requests = Append(a.requests, request)]

\* authenticate ends.
Ends(a, outcome) == [a EXCEPT !.pc = "done", !.outcome = outcome]

\* A nonce check that lets every status pass.
NonceFailed_Never(r) == FALSE

\* if nonce_response.status != HTTPStatus.OK.value
NonceFailed(r) == r.status # 200

authFrame == <<coordFrame, http, cm, api, model, service, job>>

InitAuth ==
    /\ Start /\ watch = "steps" /\ listeners = {} /\ cm = NoCm /\ api = NoApi /\ Rest
    /\ \E strategy \in {"cookie", "jwt"} : auth = NewStrategy(strategy)

\* authenticate(password) is called: the token strategy posts the login, the
\* cookie strategy asks for an XSRF token unless it holds a valid one and
\* otherwise goes on to the nonce.
Authenticate ==
    /\ auth.pc \in {"idle", "done"}
    /\ LET a == [auth EXCEPT !.op = "authenticate", !.requests = <<>>, !.status = 0, !.body = "",
                             !.outcome = NoOutcome, !.before = auth.stored_cookies]
       IN auth' = IF auth.strategy = "jwt"
                  THEN Sends(a, "jwt_login")
                  ELSE IF IsCookieValid(auth.stored_cookies, "xsrf-token", now)
                  THEN Sends(a, "nonce")
                  ELSE Sends(a, "xsrf")
    /\ UNCHANGED <<now, authFrame>>

\* make_request raises for the request in flight and authenticate lets the
\* error through.
AuthRequestFails ==
    /\ auth.pc \in AuthRequests
    /\ \E e \in MakeRequestRaises : auth' = Ends(auth, AuthRaises(e))
    /\ UNCHANGED <<now, authFrame>>

\* __ensure_xsrf_token after its GET.
XsrfResponse ==
    /\ auth.pc = "xsrf"
    /\ \E r \in AuthResponses("xsrf") :
          LET a == Received(auth, r, now)
          IN auth' = IF ~IsCookieValid(a.stored_cookies, "xsrf-token", now)
                     THEN Ends(a, AuthRaises("ClientResponseError"))
                     ELSE Sends(a, "nonce")
    /\ UNCHANGED <<now, authFrame>>

\* authenticate after the nonce POST.
NonceResponse ==
    /\ auth.pc = "nonce"
    /\ \E r \in AuthResponses("nonce") :
          LET a == Received(auth, r, now)
          IN auth' = IF NonceFailed(r)
                     THEN Ends(a, AuthRaises("ApiResponseError"))
                     ELSE IF r.body.kind = "none"
                     THEN Ends(a, AuthRaises("TypeError"))
                     ELSE IF r.body.kind # "nonce_salt"
                     THEN Ends(a, AuthRaises("KeyError"))
                     ELSE Sends(a, "password")
    /\ UNCHANGED <<now, authFrame>>

\* authenticate after the password POST.
PasswordResponse ==
    /\ auth.pc = "password"
    /\ \E r \in AuthResponses("password") :
          LET a == Received(auth, r, now)
          IN auth' = IF r.status = 401
                     THEN Ends(a, AuthRaises("InvalidAuth"))
                     ELSE IF r.status # 200
                     THEN Ends(a, AuthRaises("ClientResponseError"))
                     ELSE Ends(a, AuthReturns)
    /\ UNCHANGED <<now, authFrame>>

\* JWTAuthStrategy.authenticate after its POST.
JwtLoginResponse ==
    /\ auth.pc = "jwt_login"
    /\ \E r \in AuthResponses("jwt_login") :
          LET a == Received(auth, r, now)
          IN auth' = IF r.status = 401
                     THEN Ends(a, AuthRaises("InvalidAuth"))
                     ELSE IF r.status # 200
                     THEN Ends(a, AuthRaises("ClientResponseError"))
                     ELSE IF r.body.kind = "none"
                     THEN Ends(a, AuthRaises("AttributeError"))
                     ELSE IF r.body.kind # "access_token"
                     THEN Ends(a, AuthRaises("ValueError"))
                     ELSE Ends([a EXCEPT !.access_token = r.body.token], AuthReturns)
    /\ UNCHANGED <<now, authFrame>>

\* is_auth_valid() of the strategy.
IsAuthValid ==
    /\ auth.pc \in {"idle", "done"}
    /\ auth' = [auth EXCEPT
                   !.op = "is_auth_valid",
                   !.is_valid =
                       IF auth.strategy = "jwt"
                       THEN JwtIsAuthValid(auth.access_token, now)
                       ELSE [kind |-> "return", type |-> "",
                             value |-> CookieIsAuthValid(auth.stored_cookies, now)]]
    /\ UNCHANGED <<now, authFrame>>

\* dt_util.utcnow() advances.
AuthClockAdvances ==
    /\ now < MaxAuthTime
    /\ now' = now + 1
    /\ auth' = [auth EXCEPT !.op = IF auth.pc \in AuthRequests THEN auth.op ELSE "tick"]
    /\ UNCHANGED authFrame

NextAuth ==
    \/ Authenticate
    \/ AuthRequestFails
    \/ XsrfResponse
    \/ NonceResponse
    \/ PasswordResponse
    \/ JwtLoginResponse
    \/ IsAuthValid
    \/ AuthClockAdvances

SpecAuth == InitAuth /\ [][NextAuth]_vars

\* ------------------------------------------------------------------- api
\* DuplicatiBackendAPI: the operations on one backup, __make_api_request with
\* its login, its XSRF token and its retry, and the credentials kept in the
\* object.  update_backup is called with data.

\* The largest time on the client's clock.
MaxApiTime == 2

\* A stored expiration: None, or the string of seconds strftime("%s") gave.
NoExpiration == [set |-> FALSE, ts |-> 0]
Expiration(ts) == [set |-> TRUE, ts |-> ts]

\* dt_util.utcnow().strftime("%s") on a host whose clock is utcoffset ahead
\* of UTC: the fields of the UTC time are read as local time.
Strftime(t, utcoffset) == t - utcoffset

\* __extract_cookie_expiration: strptime, then strftime("%s").
ExtractCookieExpiration(expires, utcoffset) ==
    IF expires.kind = "date"
    THEN Expiration(Timestamp(expires.gmt, utcoffset))
    ELSE NoExpiration

\* self.x_expiration and self.x_expiration <= now
ExpiredAt(expiration, t) == expiration.set /\ expiration.ts <= t

\* A backup id as its characters; "3" is a digit and "x" is not.
ApiBackupIds == {<<>>, <<"3">>, <<"3", "x">>}
IsDigit(c) == c = "3"

\* validate_backup_id: re.match(r"\d+", backup_id) matches at the start of
\* the string and does not look at what follows the digits.
ValidateBackupId(backup_id) == Len(backup_id) >= 1 /\ IsDigit(backup_id[1])

Operations == {"get_backup", "create_backup", "update_backup", "delete_backup"}

\* The phases of a progress state; the first three let create_backup go on.
ProgressPhases == {"No active backup", "Backup_Complete", "Error", "Backup_ProcessingFiles"}

\* A validation of the phase that lets every phase pass.
IsIdlePhase_Always(phase) == TRUE

\* progress_state.phase in {"No active backup", "Backup_Complete", "Error"}
IsIdlePhase(phase) == phase \in {"No active backup", "Backup_Complete", "Error"}

\* A Set-Cookie header for one name, or none.
NotSet == [value |-> "", expires |-> NoExpires]
Cookie(value, expires) == [value |-> value, expires |-> expires]

\* The body of a response: not JSON, a JSON object with the key Error, the
\* JSON the endpoint answers with (with its Phase, for the progress state),
\* or another JSON object.
ApiBody(kind) == [kind |-> kind, phase |-> ""]
ProgressBody(phase) == [kind |-> "object", phase |-> phase]

\* A response: its status, whether its reason holds "Missing XSRF Token",
\* whether the name of its final URL holds "login", its cookies, its body.
ApiResponse(status, missing, login_page, xsrf, nonce, sess, body) ==
    [status |-> status, missing |-> missing, login_page |-> login_page,
     xsrf |-> xsrf, nonce |-> nonce, sess |-> sess, body |-> body]

\* The responses of the server to a request sent at time t; the cookies it
\* sets expire at t + 1 or carry no expiry.
ApiResponses(request, endpoint, t) ==
    IF request = "nonce"
    THEN {ApiResponse(403, FALSE, FALSE, NotSet, NotSet, NotSet, ApiBody("not_json"))}
         \cup {ApiResponse(200, FALSE, FALSE, NotSet, n, NotSet, ApiBody(b)) :
                   n \in {NotSet, Cookie("n1", Date(t + 1))},
                   b \in {"nonce_salt", "not_json"}}
    ELSE IF request = "password"
    THEN {ApiResponse(st, FALSE, FALSE, NotSet, NotSet, NotSet, ApiBody("not_json")) :
              st \in {401, 403}}
         \cup {ApiResponse(200, FALSE, FALSE, NotSet, NotSet, c, ApiBody("not_json")) :
                   c \in {NotSet, Cookie("s1", NoExpires), Cookie("s2", Date(t + 1))}}
    ELSE IF request \in {"xsrf", "refresh"}
    THEN {ApiResponse(403, FALSE, FALSE, NotSet, NotSet, NotSet, ApiBody("not_json"))}
         \cup {ApiResponse(200, FALSE, l, x, NotSet, NotSet, ApiBody("not_json")) :
                   l \in BOOLEAN,
                   x \in {NotSet, Cookie("x1", Date(t + 1)), Cookie("x2", Date(t + 1))}}
    ELSE {ApiResponse(401, FALSE, FALSE, NotSet, NotSet, NotSet, ApiBody("not_json")),
          ApiResponse(400, FALSE, FALSE, NotSet, NotSet, NotSet, ApiBody("not_json")),
          ApiResponse(200, FALSE, TRUE, NotSet, NotSet, NotSet, ApiBody("not_json"))}
         \cup {ApiResponse(400, TRUE, FALSE, NotSet, NotSet, NotSet, ApiBody(b)) :
                   b \in {"not_json", "error", "other"}}
         \cup {ApiResponse(200, FALSE, FALSE, NotSet, NotSet, NotSet, ApiBody(b)) :
                   b \in {"not_json", "error", "other"}}
         \cup {ApiResponse(200, FALSE, FALSE, NotSet, NotSet, NotSet, b) :
                   b \in IF endpoint = "ProgressState"
                         THEN {ProgressBody(ph) : ph \in ProgressPhases}
                         ELSE {ApiBody("object")}}

\* The failures of session.request followed here.
ApiFailures == {"ClientConnectorError", "TimeoutError"}

ApiReturns == [kind |-> "return", type |-> "", status |-> 0]
ApiRaises(type) == [kind |-> "raise", type |-> type, status |-> 0]

\* DuplicatiBackendAPI.__init__, with or without a password.
NewApi(password, utcoffset) ==
    [password |-> password, utcoffset |-> utcoffset,
     xsrf_token |-> "", xsrf_token_expiration |-> NoExpiration,
     session_nonce |-> "", session_nonce_expiration |-> NoExpiration,
     session_auth |-> "", session_auth_expiration |-> NoExpiration,
     pc |-> "idle", operation |-> "", backup_id |-> <<>>, endpoint |-> "",
     retry_on_missing_token |-> TRUE, pass_now |-> 0, header_xsrf |-> "",
     requests |-> <<>>, status |-> 0, missing |-> FALSE, login_page |-> FALSE,
     body |-> "", phase |-> "none", outcome |-> NoOutcome]

\* __extract_xsrf_token, __extract_session_nonce and __extract_session_auth:
\* value and expiration are taken over when the cookie is there and its
\* value differs from the stored one; the result tells whether they were.
Extracts(a, name, cookie) == cookie.value # "" /\ cookie.value # a[name]
ExtractCookie(a, name, expiration, cookie) ==
    IF Extracts(a, name, cookie)
    THEN [a EXCEPT ![name] = cookie.value,
                   ![expiration] = ExtractCookieExpiration(cookie.expires, a.utcoffset)]
    ELSE a

\* The response r to the request in flight is at hand.
ApiReceived(a, r) ==
    [a EXCEPT !.status = r.status, !.missing = r.missing,
              !.login_page = r.login_page, !.body = r.body.kind]

\* __make_request is called for a request.
ApiSends(a, pc) ==
    [a EXCEPT !.pc = pc,
              !.requests = Append(a.requests, IF pc = "request" THEN a.endpoint ELSE pc),
              !.status = 0, !.missing = FALSE, !.login_page = FALSE, !.body = ""]

\* The public method ends.
ApiEnds(a, outcome) == [a EXCEPT !.pc = "done", !.outcome = outcome]

\* The condition under which __make_api_request logs in.
NeedsLogin(a) ==
    /\ a.password
    /\ \/ a.session_auth = ""
       \/ ExpiredAt(a.session_auth_expiration, a.pass_now)
       \/ a.session_nonce = ""
       \/ ExpiredAt(a.session_nonce_expiration, a.pass_now)

\* The X-XSRF-Token header is set and the API request is sent.
SendApiRequest(a) ==
    ApiSends([a EXCEPT !.header_xsrf = IF a.xsrf_token # "" THEN a.xsrf_token
                                       ELSE a.header_xsrf],
             "request")

\* __make_api_request from the XSRF block on.
EnsureXsrfToken(a) ==
    IF a.xsrf_token = "" \/ ExpiredAt(a.xsrf_token_expiration, a.pass_now)
    THEN ApiSends(a, "xsrf")
    ELSE SendApiRequest(a)

\* __make_api_request is entered at time t.
MakeApiRequest(a, t, retry_on_missing_token) ==
    LET b == [a EXCEPT !.pass_now = Strftime(t, a.utcoffset),
                       !.retry_on_missing_token = retry_on_missing_token]
    IN IF NeedsLogin(b) THEN ApiSends(b, "nonce") ELSE EnsureXsrfToken(b)

\* A public method opens a session and calls __make_api_request.
StartApiCall(a, endpoint, t) ==
    MakeApiRequest([a EXCEPT !.endpoint = endpoint, !.requests = <<>>,
                             !.header_xsrf = ""], t, TRUE)

\* A check of the final URL that never finds the login page.
IsLoginPage_Never(r) == FALSE

\* "login" in response.url.name
IsLoginPage(r) == r.login_page

\* __get_xsrf_token after its GET: the client with the token taken over, or
\* the error raised.
GetXsrfToken(a, r) ==
    IF r.status = 200 /\ Extracts(a, "xsrf_token", r.xsrf)
    THEN ExtractCookie(a, "xsrf_token", "xsrf_token_expiration", r.xsrf)
    ELSE ApiEnds(a, ApiRaises("ClientResponseError"))

\* The public method with the dict __make_api_request returned, at time t.
HandleResponse(a, body, t) ==
    IF body.kind = "error"
    THEN ApiEnds(a, ApiRaises("ApiResponseError"))
    ELSE IF a.endpoint = "ProgressState"
    THEN LET p == [a EXCEPT !.phase = body.phase]
         IN IF ~IsIdlePhase(body.phase)
            THEN ApiEnds(p, ApiRaises("RuntimeError"))
            ELSE StartApiCall(p, "run", t)
    ELSE IF a.operation = "get_backup" /\ body.kind = "other"
    THEN ApiEnds(a, ApiRaises("KeyError"))
    ELSE ApiEnds(a, ApiReturns)

apiFrame == <<coordFrame, http, cm, auth, model, service, job>>

\* The host's clock is ahead of UTC.
ApiUtcOffsets == {1}

InitApi ==
    /\ Start /\ watch = "steps" /\ listeners = {} /\ cm = NoCm /\ auth = NoAuth /\ Rest
    /\ \E password \in BOOLEAN, utcoffset \in ApiUtcOffsets : api = NewApi(password, utcoffset)

\* get_backup, create_backup, update_backup or delete_backup is called.
ApiCall ==
    /\ api.pc \in {"idle", "done"}
    /\ \E operation \in Operations, backup_id \in ApiBackupIds :
          LET a == [api EXCEPT !.operation = operation, !.backup_id = backup_id,
                               !.endpoint = "", !.requests = <<>>, !.phase = "none",
                               !.status = 0, !.missing = FALSE, !.login_page = FALSE,
                               !.body = "", !.outcome = NoOutcome]
          IN api' = IF ~ValidateBackupId(backup_id)
                    THEN ApiEnds(a, ApiRaises("ValueError"))
                    ELSE StartApiCall(a, IF operation = "create_backup"
                                         THEN "ProgressState" ELSE "Backup", now)
    /\ UNCHANGED <<now, apiFrame>>

\* session.request raises: within __do_login a ClientError becomes
\* CannotConnect; everything else leaves the public method as it is.
ApiRequestFails ==
    /\ api.pc \in {"nonce", "password", "xsrf", "request", "refresh"}
    /\ \E e \in ApiFailures :
          api' = ApiEnds(api, ApiRaises(IF api.pc \in {"nonce", "password"} /\ e \in ClientErrors
                                        THEN "CannotConnect" ELSE e))
    /\ UNCHANGED <<now, apiFrame>>

\* __do_login after the nonce POST.
ApiNonceResponse ==
    /\ api.pc = "nonce"
    /\ \E r \in ApiResponses("nonce", api.endpoint, now) :
          LET a == ApiReceived(api, r)
              x == ExtractCookie(a, "xsrf_token", "xsrf_token_expiration", r.xsrf)
              n == ExtractCookie(x, "session_nonce", "session_nonce_expiration", r.nonce)
          IN api' = IF r.status # 200
                    THEN ApiEnds(a, ApiRaises("ClientResponseError"))
                    ELSE IF r.body.kind = "not_json"
                    THEN ApiEnds(n, ApiRaises("ValueError"))
                    ELSE IF r.body.kind # "nonce_salt"
                    THEN ApiEnds(n, ApiRaises("KeyError"))
                    ELSE ApiSends(n, "password")
    /\ UNCHANGED <<now, apiFrame>>

\* __do_login after the password POST, and __make_api_request after it.
ApiPasswordResponse ==
    /\ api.pc = "password"
    /\ \E r \in ApiResponses("password", api.endpoint, now) :
          LET a == ApiReceived(api, r)
              x == ExtractCookie(a, "xsrf_token", "xsrf_token_expiration", r.xsrf)
              s == ExtractCookie(x, "session_auth", "session_auth_expiration", r.sess)
          IN api' = IF r.status = 401
                    THEN ApiEnds(a, ApiRaises("InvalidAuth"))
                    ELSE IF r.status # 200
                    THEN ApiEnds(a, ApiRaises("ClientResponseError"))
                    ELSE EnsureXsrfToken(s)
    /\ UNCHANGED <<now, apiFrame>>

\* __make_api_request after the GET of its XSRF block.
ApiXsrfResponse ==
    /\ api.pc = "xsrf"
    /\ \E r \in ApiResponses("xsrf", api.endpoint, now) :
          LET a == GetXsrfToken(ApiReceived(api, r), r)
          IN api' = IF a.pc = "done"
                    THEN a
                    ELSE IF IsLoginPage(r)
                    THEN ApiEnds(a, ApiRaises("InvalidAuth"))
                    ELSE SendApiRequest(a)
    /\ UNCHANGED <<now, apiFrame>>

\* __make_api_request after the API request, and the public method after it.
ApiResponseArrives ==
    /\ api.pc = "request"
    /\ \E r \in ApiResponses("request", api.endpoint, now) :
          LET a == ApiReceived(api, r)
          IN api' = IF r.status = 401
                    THEN ApiEnds(a, ApiRaises("InvalidAuth"))
                    ELSE IF IsLoginPage(r)
                    THEN ApiEnds(a, ApiRaises("InvalidAuth"))
                    ELSE IF r.status = 400 /\ r.missing /\ api.retry_on_missing_token
                    THEN ApiSends(a, "refresh")
                    ELSE IF r.body.kind = "not_json"
                    THEN ApiEnds(a, ApiRaises("ValueError"))
                    ELSE HandleResponse(a, r.body, now)
    /\ UNCHANGED <<now, apiFrame>>

\* __make_api_request after the GET that follows "Missing XSRF Token": the
\* header is set and __make_api_request is entered once more.
ApiRefreshResponse ==
    /\ api.pc = "refresh"
    /\ \E r \in ApiResponses("refresh", api.endpoint, now) :
          LET a == GetXsrfToken(ApiReceived(api, r), r)
          IN api' = IF a.pc = "done"
                    THEN a
                    ELSE MakeApiRequest([a EXCEPT !.header_xsrf = a.xsrf_token], now, FALSE)
    /\ UNCHANGED <<now, apiFrame>>

\* dt_util.utcnow() advances.
ApiClockAdvances ==
    /\ now < MaxApiTime
    /\ now' = now + 1
    /\ UNCHANGED <<api, apiFrame>>

NextApi ==
    \/ ApiCall
    \/ ApiRequestFails
    \/ ApiNonceResponse
    \/ ApiPasswordResponse
    \/ ApiXsrfResponse
    \/ ApiResponseArrives
    \/ ApiRefreshResponse
    \/ ApiClockAdvances

SpecApi == InitApi /\ [][NextApi]_vars

\* ----------------------------------------------------------------- model
\* BackupDefinition.from_dict and to_dict on the payload of one job, and the
\* sensor data __get_backup_info derives from the parsed definition.  A date
\* string is the time it names and whether its year is below 1000; a
\* duration string is its three fields and whether ".5" follows the seconds.

\* The largest time named by a date of the payload.
MaxModelTime == 2

Null == [kind |-> "none"]
DateString(t, early) == [kind |-> "date", t |-> t, early |-> early]
DurationString(hours, minutes, seconds, half) ==
    [kind |-> "duration", hours |-> hours, minutes |-> minutes,
     seconds |-> seconds, half |-> half]
Text(value) == [kind |-> "text", value |-> value]
Datetime(t, early) == [kind |-> "datetime", t |-> t, early |-> early]
Timedelta(halves) == [kind |-> "timedelta", halves |-> halves]

\* The dates of the metadata, the durations, and the times of a schedule
\* (a schedule that never ran reports a last run in the year 1).
MetadataDates == {Null} \cup {DateString(t, FALSE) : t \in 1..MaxModelTime}
Durations ==
    {Null} \cup {DurationString(h, m, sec, half) :
                     h \in {0, 1}, m \in {0, 30}, sec \in {0, 45}, half \in {0, 1}}
ScheduleDates == {Text(""), DateString(0, TRUE)} \cup {DateString(t, FALSE) : t \in {1}}

\* The payload of a job: the metadata fields followed, and the schedule.
Payloads ==
    [LastBackupFinished : MetadataDates, LastErrorDate : MetadataDates,
     LastBackupDuration : Durations, SourceFilesSize : {Null, Text("10")},
     Time : {DateString(1, FALSE)}, LastRun : ScheduleDates]

\* Metadata.__parse_datetime and Schedule.__parse_datetime: strptime, then
\* replace(tzinfo=UTC); None, and for a schedule "", give None.
ParseDatetime(value) ==
    IF value.kind # "date" THEN Null ELSE Datetime(value.t, value.early)

\* __datetime_to_string: strftime; %Y of a year below 1000 is zero-filled
\* to four digits or not, by the C library of the build.
DatetimeToString(date, pads_year) ==
    IF date.kind = "none" THEN Null
    ELSE IF date.early /\ ~pads_year THEN [kind |-> "short_year", t |-> date.t, early |-> TRUE]
    ELSE DateString(date.t, date.early)

\* Metadata.__parse_duration; the timedelta is counted in half seconds.
ParseDuration(value) ==
    IF value.kind = "none" THEN Null
    ELSE Timedelta(2 * (3600 * value.hours + 60 * value.minutes + value.seconds)
                       + value.half)

\* format(n / d, ".0f"): rounding to the nearest integer, a tie to the even one.
RoundHalfEven(n, d) ==
    LET q == n \div d
        r == n % d
    IN IF 2 * r < d THEN q
       ELSE IF 2 * r > d THEN q + 1
       ELSE IF q % 2 = 0 THEN q ELSE q + 1

\* Metadata.__duration_to_string.
DurationToString(duration) ==
    IF duration.kind = "none" THEN Null
    ELSE LET total_seconds == duration.halves
         IN DurationString(RoundHalfEven(total_seconds, 7200),
                           RoundHalfEven(total_seconds % 7200, 120),
                           RoundHalfEven(total_seconds % 120, 2), 0)

\* BackupDefinition.from_dict, for the fields followed.
FromDict(payload) ==
    [last_backup_finished |-> ParseDatetime(payload.LastBackupFinished),
     last_error_date |-> ParseDatetime(payload.LastErrorDate),
     last_backup_duration |-> ParseDuration(payload.LastBackupDuration),
     source_files_size |-> payload.SourceFilesSize,
     time |-> ParseDatetime(payload.Time),
     last_run |-> ParseDatetime(payload.LastRun)]

\* BackupDefinition.to_dict, for the fields followed; Schedule.to_dict writes
\* "" for a time that is None.
ToDict(definition, pads_year) ==
    [LastBackupFinished |-> DatetimeToString(definition.last_backup_finished, pads_year),
     LastErrorDate |-> DatetimeToString(definition.last_error_date, pads_year),
     LastBackupDuration |-> DurationToString(definition.last_backup_duration),
     SourceFilesSize |-> definition.source_files_size,
     Time |-> IF definition.time.kind = "none" THEN Text("")
              ELSE DatetimeToString(definition.time, pads_year),
     LastRun |-> IF definition.last_run.kind = "none" THEN Text("")
                 ELSE DatetimeToString(definition.last_run, pads_year)]

\* A comparison that lets the error win a tie.
ErrorIsLater_OrEqual(last_error_date, last_backup_finished) ==
    last_error_date.t >= last_backup_finished.t

\* last_error_date > last_backup_finished
ErrorIsLater(last_error_date, last_backup_finished) ==
    last_error_date.t > last_backup_finished.t

\* __get_backup_info: last_backup_status.
LastBackupStatus(definition) ==
    IF definition.last_error_date.kind # "none"
    THEN \/ definition.last_backup_finished.kind = "none"
         \/ ErrorIsLater(definition.last_error_date, definition.last_backup_finished)
    ELSE FALSE

\* __get_backup_info: last_backup_execution.
LastBackupExecution(definition) ==
    IF LastBackupStatus(definition)
    THEN definition.last_error_date
    ELSE definition.last_backup_finished

modelFrame == <<now, coordFrame, http, cm, auth, api, service, job>>

InitModel ==
    /\ Start /\ watch = "steps" /\ listeners = {}
    /\ cm = NoCm /\ auth = NoAuth /\ api = NoApi /\ service = NoService
    /\ job = "unknown"
    /\ \E payload \in Payloads, pads_year \in BOOLEAN :
          model = [pc |-> "payload", payload |-> payload, pads_year |-> pads_year,
                   definition |-> FromDict(payload), serialized |-> payload,
                   last_backup_status |-> FALSE, last_backup_execution |-> Null]

\* get_backup has parsed the payload with BackupDefinition.from_dict.
ModelFromDict ==
    /\ model.pc = "payload"
    /\ model' = [model EXCEPT !.pc = "definition"]
    /\ UNCHANGED modelFrame

\* to_dict of the parsed definition.
ModelToDict ==
    /\ model.pc = "definition"
    /\ model' = [model EXCEPT !.pc = "serialized",
                              !.serialized = ToDict(model.definition, model.pads_year)]
    /\ UNCHANGED modelFrame

\* __get_backup_info on the parsed definition.
ModelGetBackupInfo ==
    /\ model.pc = "definition"
    /\ model' = [model EXCEPT
                    !.pc = "sensor_data",
                    !.last_backup_status = LastBackupStatus(model.definition),
                    !.last_backup_execution = LastBackupExecution(model.definition)]
    /\ UNCHANGED modelFrame

NextModel ==
    \/ ModelFromDict
    \/ ModelToDict
    \/ ModelGetBackupInfo

SpecModel == InitModel /\ [][NextModel]_vars

\* --------------------------------------------------------------- service
\* DuplicatiService.async_create_backup, called by service_handler with the
\* backup id of the service call.  The calls of the API end in one of the
\* ways DuplicatiBackendAPI.create_backup and get_progress_state can end.

ServiceBackupIds == {"1", "3", "5", "x"}
RegisteredIds == {"1", "3", "5"}

\* What create_backup raises: validation, a running job, an error payload,
\* the login, the connection, a status raised while logging in, a timeout.
CreateBackupErrors ==
    {"ValueError", "RuntimeError", "ApiResponseError", "InvalidAuth",
     "CannotConnect", "ClientConnectorError", "ClientResponseError", "TimeoutError"}
\* What get_progress_state raises.
ProgressStateErrors == CreateBackupErrors \ {"RuntimeError"}
\* What create_backup returns: the body of the answer to the POST.
CreateBackupResponses == {"Status OK", "Status Failed", "no Status"}

\* str(e) of the exceptions followed.
ErrorMessage(type, detail) ==
    CASE type = "DuplicatiServiceException" -> "Unknown backup ID provided"
      [] type = "ApiResponseError" /\ detail = "Status Failed" -> "Unable to start the backup process"
      [] type = "ApiResponseError" /\ detail = "no Status" -> "No status received in API response"
      [] OTHER -> type

\* The except clauses of async_create_backup; ClientConnectorError is a
\* ClientConnectionError.
CaughtByCreateBackup(type) ==
    type \in {"DuplicatiServiceException", "ClientConnectorError", "ApiResponseError"}

NewService(coordinators) ==
    [pc |-> "idle", coordinators |-> coordinators, backup_id |-> "",
     called |-> "", error |-> "", message |-> "", events |-> <<>>,
     notifications |-> <<>>, logged |-> FALSE]

\* An exception leaves the try block: an except clause of
\* async_create_backup fires backup_failed and creates the notification, or
\* the exception reaches service_handler, which logs it.
ServiceRaise(sv, type, detail) ==
    LET message == ErrorMessage(type, detail)
        failed == [sv EXCEPT !.pc = "done", !.error = type, !.message = message]
    IN IF CaughtByCreateBackup(type)
       THEN [failed EXCEPT !.events = Append(@, "backup_failed"),
                           !.notifications = Append(@, message)]
       ELSE [failed EXCEPT !.logged = TRUE]

serviceFrame == <<now, coordFrame, http, cm, auth, api, model, job>>

InitService ==
    /\ Start /\ watch = "steps" /\ listeners = {}
    /\ cm = NoCm /\ auth = NoAuth /\ api = NoApi /\ model = NoModel
    /\ job = "unknown"
    /\ \E coordinators \in SUBSET RegisteredIds : service = NewService(coordinators)

\* async_create_backup up to the call of api.create_backup.
AsyncCreateBackup ==
    /\ service.pc = "idle"
    /\ \E backup_id \in ServiceBackupIds :
          LET called == [service EXCEPT !.backup_id = backup_id, !.called = "create_backup"]
          IN service' = IF backup_id \notin service.coordinators
                        THEN ServiceRaise(called, "DuplicatiServiceException", "")
                        ELSE [called EXCEPT !.pc = "create_backup"]
    /\ UNCHANGED serviceFrame

\* api.create_backup returns: the checks of the answer, backup_started, and
\* the first get_progress_state of _wait_for_backup_completion.
CreateBackupReturns ==
    /\ service.pc = "create_backup"
    /\ \E resp \in CreateBackupResponses :
          service' = IF resp # "Status OK"
                     THEN ServiceRaise(service, "ApiResponseError", resp)
                     ELSE [service EXCEPT !.pc = "get_progress_state",
                                          !.events = Append(@, "backup_started")]
    /\ UNCHANGED serviceFrame

\* api.create_backup raises.
CreateBackupRaises ==
    /\ service.pc = "create_backup"
    /\ \E type \in CreateBackupErrors : service' = ServiceRaise(service, type, "")
    /\ UNCHANGED serviceFrame

\* get_progress_state returns a BackupProgress, a dataclass, and
\* response["BackupID"] raises TypeError.
ProgressStateReturns ==
    /\ service.pc = "get_progress_state"
    /\ service' = ServiceRaise(service, "TypeError", "")
    /\ UNCHANGED serviceFrame

\* get_progress_state raises.
ProgressStateRaises ==
    /\ service.pc = "get_progress_state"
    /\ \E type \in ProgressStateErrors : service' = ServiceRaise(service, type, "")
    /\ UNCHANGED serviceFrame

\* The next service call.
ServiceReturns ==
    /\ service.pc = "done"
    /\ service' = NewService(service.coordinators)
    /\ UNCHANGED serviceFrame

NextService ==
    \/ AsyncCreateBackup
    \/ CreateBackupReturns
    \/ CreateBackupRaises
    \/ ProgressStateReturns
    \/ ProgressStateRaises
    \/ ServiceReturns

SpecService == InitService /\ [][NextService]_vars

\* ------------------------------------------------------------- shorthands
PendingPointTimers ==
    LET Sum[k \in 0..(MaxTime + SCHEDULE_BUFFER)] ==
            IF k = 0 THEN 0 ELSE Sum[k - 1] + point_timers[k]
    IN  Sum[MaxTime + SCHEDULE_BUFFER]

PendingTimers == PendingPointTimers + interval_timers

TypeOK ==
    /\ now \in 0..MaxTime
    /\ monitoring_state \in MonitoringState
    /\ next_backup_execution \in {NONE} \cup ScheduleTimes
    /\ monitoring_scheduled_for \in {NONE} \cup ScheduleTimes
    /\ remove_scheduled_backup_listener \in {NONE} \cup FireTimes
    /\ remove_active_backup_monitor_listener \in BOOLEAN
    /\ point_timers \in [FireTimes -> 0..MaxTasks + 2]
    /\ interval_timers \in 0..MaxTasks + 2
    /\ unloaded \in BOOLEAN
    /\ completed \in BOOLEAN


\* ----------------------------------------------------------------- claims
\* The steps that publish a snapshot.
Publishing == {"poll_end", "fast_final", "detected", "gave_up", "recovered"}

\* C1: at most one timer is outstanding in total: the one-shot schedule timer
\* and the fast-interval timer are never pending at the same time.
C1_AtMostOneTimer == PendingTimers <= 1

\* C2: when async_unload returns, no timer is pending, no cancel handle is
\* held and the state is Idle, whatever the state was; an unload that follows
\* an unload, or that finds no timer pending, changes nothing.
C2_UnloadCancelsAll ==
    [][ev'.op = "unload" =>
          /\ PendingTimers' = 0
          /\ monitoring_state' = "IDLE"
          /\ remove_scheduled_backup_listener' = NONE
          /\ ~remove_active_backup_monitor_listener'
          /\ (ev.op = "unload" \/ PendingTimers = 0) =>
                (UNCHANGED coordVars /\ ev'.cancelled = 0)]_vars

\* An unload has cancelled the timer of a Scheduled or Active coordinator.
C2_Witness ==
    /\ ev.op = "unload" /\ ev.cancelled = 1
    /\ PendingTimers = 0 /\ monitoring_state = "IDLE"

\* C3: unload is terminal: once async_unload has run, no timer is pending
\* again, whatever handler was suspended when it ran.
C3_UnloadIsTerminal == unloaded => PendingTimers = 0

\* C4: a fast-poll check whose running-check completes after the completion
\* of the Active episode has been handled is ignored: the completion sequence
\* begins at most once in an Active episode.
C4_CompletionOncePerEpisode ==
    [][ev'.op = "fast_finished" => ~completed]_vars

\* C5: the fetch start times of successively published snapshots never
\* decrease: no step publishes a snapshot derived from a fetch that started
\* before the fetch of the snapshot already published.
C5_PublishedInFetchOrder == ev.op \in Publishing => ~ev.stale

\* A fast-poll check in Active that finds the job finished cancels the
\* interval timer, leaves the coordinator Idle and enters its one grace sleep
\* with no refetch made yet.
FastCheckStops ==
    ev'.op = "fast_finished" /\ monitoring_state = "ACTIVE" =>
        /\ monitoring_state' = "IDLE"
        /\ interval_timers' = 0
        /\ ~remove_active_backup_monitor_listener'
        /\ ev'.cancelled = 1
        /\ \E i \in TaskIds :
              /\ task'[i].kind = "fast" /\ task'[i].pc = "sleep"
              /\ task'[i].sleeps = 1 /\ task'[i].fetches = 0

\* The completion sequence publishes after one sleep and one full refetch.
FastCheckRefetchesOnce ==
    ev'.op = "fast_final" =>
        /\ task[ev'.actor].sleeps = 1
        /\ task[ev'.actor].fetches = 1
        /\ data'.has

C7_IdlePollSchedules ==
    [][(/\ ev'.op = "poll_end" /\ ~ev'.run
        /\ monitoring_state = "IDLE"
        /\ task[ev'.actor].nxt # NONE
        /\ task[ev'.actor].nxt > now)
       => /\ monitoring_state' = "SCHEDULED"
          /\ PendingPointTimers' = 1
          /\ point_timers'[task[ev'.actor].nxt + SCHEDULE_BUFFER] = 1
          /\ remove_scheduled_backup_listener' = task[ev'.actor].nxt + SCHEDULE_BUFFER]_vars

\* C8: when the regular poll of a Scheduled coordinator returns a future run
\* time and finds the job not running: a time that differs from the scheduled
\* one has the old one-shot timer cancelled and one new timer armed, the only
\* one-shot timer pending, for the new time plus the buffer; the scheduled
\* time itself has nothing cancelled and nothing armed.
C8_ScheduledPollReschedules ==
    [][(/\ ev'.op = "poll_end" /\ ~ev'.run
        /\ monitoring_state = "SCHEDULED"
        /\ task[ev'.actor].nxt # NONE
        /\ task[ev'.actor].nxt > now)
       => IF task[ev'.actor].nxt # monitoring_scheduled_for
          THEN /\ ev'.cancelled = 1 /\ ev'.armed = 1
               /\ monitoring_state' = "SCHEDULED"
               /\ monitoring_scheduled_for' = task[ev'.actor].nxt
               /\ PendingPointTimers' = 1
               /\ point_timers'[task[ev'.actor].nxt + SCHEDULE_BUFFER] = 1
          ELSE /\ ev'.cancelled = 0 /\ ev'.armed = 0
               /\ UNCHANGED coordVars]_vars

\* C9: when a regular poll finds the job running, the coordinator is Active
\* with the one fast-interval timer armed when the poll ends; from Idle and
\* from Scheduled it has armed that timer in this step, and the one-shot
\* timer that was pending is cancelled.
C9_RunningPollActivates ==
    [][ev'.op = "poll_end" /\ ev'.run =>
          /\ monitoring_state' = "ACTIVE"
          /\ interval_timers' = 1
          /\ remove_active_backup_monitor_listener'
          /\ PendingPointTimers' = 0
          /\ remove_scheduled_backup_listener' = NONE
          /\ monitoring_state \in {"IDLE", "SCHEDULED"} =>
                (ev'.armed = 1 /\ ev'.cancelled >= PendingPointTimers)]_vars

\* A poll of a Scheduled coordinator has found the job running: the one-shot
\* timer is cancelled and the interval timer is armed.
C9_Witness ==
    /\ ev.op = "poll_end" /\ ev.run
    /\ ev.cancelled = 1 /\ ev.armed = 1
    /\ monitoring_state = "ACTIVE" /\ interval_timers = 1
    /\ PendingPointTimers = 0

\* C10: the fired one-shot timer leaves the coordinator Idle with the first
\* check under way; a check is repeated at most the configured number of
\* times, each after one sleep, and gives up at the last; giving up makes one
\* full refetch, publishes current_status = false and leaves the coordinator
\* Idle or Scheduled, Scheduled when a future run time is known.
C10_RetryLoopGivesUp ==
    [][/\ ev'.op = "timer_fired" =>
             /\ monitoring_state' = "IDLE"
             /\ \E i \in TaskIds :
                   /\ task'[i].kind = "sched" /\ task'[i].pc = "get_progress"
                   /\ task'[i].retry = 0 /\ task'[i].sleeps = 0
       /\ \A i \in TaskIds :
             task'[i].kind = "sched" =>
                /\ task'[i].retry <= MONITORING_DETECTION_CHECK_RETRIES
                /\ task'[i].sleeps <= MONITORING_DETECTION_CHECK_RETRIES
       /\ ev'.op = "max_retries" =>
             task[ev'.actor].retry = MONITORING_DETECTION_CHECK_RETRIES
       /\ ev'.op = "gave_up" =>
             /\ task[ev'.actor].fetches = 1
             /\ data'.has /\ ~data'.cur
             /\ monitoring_state' \in {"IDLE", "SCHEDULED"}
             /\ next_backup_execution' # NONE => monitoring_state' = "SCHEDULED"]_vars

\* The handler tasks in flight.
Running(tk) == {i \in TaskIds : tk[i].kind # "none"}

\* C11: an error in a regular poll, a fast-poll check or a scheduled-start
\* check has the error handler cancel every timer and drop both handles, set
\* the state Idle and start one recovery fetch, the only fetch the handler
\* makes; the recovery that succeeds publishes its snapshot and arms a
\* one-shot timer only for a run time in the future, the recovery that fails
\* changes nothing; either way the handler task ends, and it ends by raising
\* only when it is the regular poll.
C11_ErrorHandlerRecovers ==
    [][/\ ev'.op = "error" =>
             /\ monitoring_state' = "IDLE"
             /\ PendingTimers' = 0
             /\ remove_scheduled_backup_listener' = NONE
             /\ ~remove_active_backup_monitor_listener'
             /\ ev'.cancelled = PendingTimers
             /\ ~ev'.raised
             /\ task[ev'.actor].pc # "recover"
             /\ \E j \in TaskIds :
                   /\ task'[j].pc = "recover"
                   /\ task'[j].kind = task[ev'.actor].kind
                   /\ task'[j].fetches = task[ev'.actor].fetches + 1
       /\ ev'.op = "recovered" =>
             /\ task[ev'.actor].pc = "recover"
             /\ data'.has /\ ~data'.cur
             /\ ev'.armed = 1 =>
                   /\ next_backup_execution' # NONE /\ next_backup_execution' > now
                   /\ monitoring_state' = "SCHEDULED"
                   /\ point_timers'[next_backup_execution' + SCHEDULE_BUFFER] >= 1
             /\ ev'.armed = 0 /\ monitoring_state # "SCHEDULED" =>
                   monitoring_state' = monitoring_state
             /\ next_backup_execution' = NONE =>
                   (ev'.armed = 0 /\ monitoring_state' = monitoring_state)
       /\ ev'.op = "recover_failed" =>
             /\ task[ev'.actor].pc = "recover"
             /\ UNCHANGED <<coordVars, data>>
       /\ ev'.op \in {"recovered", "recover_failed"} =>
             /\ Cardinality(Running(task')) = Cardinality(Running(task)) - 1
             /\ ev'.raised <=> task[ev'.actor].kind = "poll"
       /\ ev'.op \notin {"recovered", "recover_failed"} => ~ev'.raised]_vars

\* The error handler of a fast-poll check has cancelled the interval timer
\* and its recovery has re-entered Scheduled for the run time it fetched.
C11_Witness ==
    /\ ev.op = "recovered" /\ ev.armed = 1 /\ ~ev.raised
    /\ monitoring_state = "SCHEDULED"
    /\ data.has /\ ~data.cur
    /\ PendingTimers = 1

\* C12: at most one timer of each kind is pending at any time: never two
\* interval timers, never two one-shot timers.
C12_OneTimerPerKind == interval_timers <= 1 /\ PendingPointTimers <= 1

\* A step has replaced the pending one-shot timer: it cancelled the old one
\* and armed the new one, the only one pending.
C12_Witness ==
    /\ ev.cancelled = 1 /\ ev.armed = 1
    /\ monitoring_state = "SCHEDULED"
    /\ PendingPointTimers = 1

\* The wait has just ended, other than by cancellation.
WaitEnds ==
    /\ wait.pc = "waiting" /\ wait'.pc = "done"
    /\ wait'.outcome.type # "CancelledError"

\* C13: start_monitoring_and_wait removes its listener on every exit path:
\* when it has returned or raised, the subscribers are those from before the
\* call, and its listener is subscribed only while it waits.
C13_ListenerRemoved ==
    [][/\ wait'.pc = "done" => listeners' = wait'.before
       /\ "backup_state_listener" \in listeners' <=> wait'.pc = "waiting"]_vars

\* A wait that had subscribed has ended by raising, and the subscribers are
\* those from before the call.
C13_Witness ==
    /\ wait.pc = "done" /\ wait.waited >= 1
    /\ wait.outcome.kind = "raise"
    /\ listeners = wait.before /\ listeners # {}

\* C14: the wait ends on the event only after the job has been observed
\* running: a snapshot published with the flag false before that does not end
\* the wait.
C14_EndsAfterObservedRunning ==
    [][WaitEnds /\ wait.completion_event => wait.observed]_vars

\* C15: the wait that ends on the event returns when the last-run-error flag
\* of the final snapshot is not set and raises the job-failure error with the
\* last error message when it is set; the wait ends with the timeout error
\* exactly when the upper bound has elapsed with the event not set; the
\* timeout error differs from every job-failure error.
C15_ThreeOutcomes ==
    [][WaitEnds =>
          IF wait.completion_event
          THEN /\ data.has /\ data.err = "false" => wait'.outcome.kind = "return"
               /\ data.has /\ data.err = "true" =>
                     /\ wait'.outcome.kind = "raise"
                     /\ wait'.outcome.type = DuplicatiCoordinatorException
                     /\ data.msg # "absent" => wait'.outcome.message = data.msg
               /\ wait'.outcome.cause # "TimeoutError"
               /\ wait'.outcome # Raised(DuplicatiCoordinatorException,
                                         TimeoutMessage, "TimeoutError")
          ELSE /\ wait.waited = MONITORING_SERVICE_WAIT_TIMEOUT_SECONDS
               /\ wait'.outcome = Raised(DuplicatiCoordinatorException,
                                         TimeoutMessage, "TimeoutError")]_vars

\* A wait has ended with the job-failure error that carries the last error
\* message of the final snapshot.
C15_Witness ==
    /\ wait.pc = "done"
    /\ wait.outcome.kind = "raise" /\ wait.outcome.cause = ""
    /\ wait.outcome.type = DuplicatiCoordinatorException
    /\ data.has /\ data.err = "true" /\ wait.outcome.message = data.msg

\* The request of this step has just been sent.
Sent == http'.op \in {"call", "redirect"} /\ http'.pc = "sent" /\ http' # http

\* C16: at the moment the headers of a request are built, get_valid_cookies
\* returns no cookie whose expiry is earlier than the current time.
C16_ExpiredNeverPresented ==
    [][Sent => \A k \in http'.presented : ~Expired(http'.stored_cookies[k], now')]_vars

\* C17: a call of make_request stops following redirects before the redirect
\* count reaches the largest count followed.
C17_RedirectsBounded == http.redirect_count < MaxRedirectCount

\* C18: the Cookie header sent to a redirect target lists only cookies that
\* match the target URL.
C18_RedirectCookiesMatchTarget ==
    [][Sent /\ http'.op = "redirect" =>
          http'.request_headers.cookie \subseteq
              {<<k, http'.stored_cookies[k].value>> : k \in GetValidCookies(http', http'.url)}]_vars

\* C19: when the caller or add_headers has set X-XSRF-Token, the request
\* carries one of their values, not the value derived from the cookie.
C19_StrategyHeaderWins ==
    [][Sent /\ {http'.headers, http'.caller_xsrf} # {""} =>
          http'.request_headers.xsrf \in {http'.headers, http'.caller_xsrf} \ {""}]_vars

\* C20: a call of make_request that ends with a connection failure raises
\* CannotConnect.
C20_FailureIsCannotConnect ==
    [][http'.op = "raise" /\ http' # http =>
          http'.outcome.kind = "raise" /\ http'.outcome.type = "CannotConnect"]_vars

\* The expiry a cookie of a response is issued with, where the response
\* names one.
IssuedExpiry(c) == c.expires.gmt

\* The cookies of the response at hand that name their expiry or have none.
Issued == {cm.cookies[i] : i \in {j \in DOMAIN cm.cookies : cm.cookies[j].expires.kind # "other"}}

\* C21: after extract_and_update_cookies, a cookie issued with an expiry in
\* the past is not stored, and a cookie issued for a name already stored,
\* with a changed value or expiry, is stored with the issued value and
\* expiry.
C21_LastWriteWins ==
    [][cm.pc = "response" /\ cm'.pc = "done" =>
          \A c \in Issued :
              LET old == cm.stored_cookies[c.key]
                  new == cm'.stored_cookies[c.key]
                  past == c.expires.kind = "date" /\ IssuedExpiry(c) < cm.current_time
                  changed == old.value # c.value \/ old.expires # IssuedExpiry(c)
              IN /\ past => new = NoCookie
                 /\ (~past /\ old # NoCookie /\ changed)
                       => (new.value = c.value /\ new.expires = IssuedExpiry(c))]_vars

\* C22: is_auth_valid of the challenge-response strategy is true exactly
\* when a session-auth cookie is stored with a value and is unexpired at the
\* current time, a cookie with no expiry counting as unexpired.
C22_SessionValidIffUnexpired ==
    LET session_auth == http.stored_cookies["session-auth"]
    IN CookieIsAuthValid(http.stored_cookies, now)
           <=> /\ session_auth # NoCookie
               /\ session_auth.value # ""
               /\ session_auth.expires = NONE \/ session_auth.expires > now

\* A token that is_auth_valid is to treat as invalid: wrong number of
\* segments, undecodable parts, a payload that is not a JSON object, no exp
\* claim, or an exp claim that is neither a number nor the digits of one.
Malformed(token) ==
    \/ token.segments # 3
    \/ token.header # "object"
    \/ token.payload # "object"
    \/ token.exp.kind \notin {"number", "digits"}

\* C23: is_auth_valid of the token strategy never raises; it returns false
\* for a stored token that is malformed, and for a well-formed one it returns
\* true exactly when the exp claim is later than now.
C23_MalformedTokenIsInvalid ==
    (auth.strategy = "jwt" /\ auth.op = "is_auth_valid" /\ auth.access_token # NoToken) =>
        /\ auth.is_valid.kind = "return"
        /\ Malformed(auth.access_token) => ~auth.is_valid.value
        /\ ~Malformed(auth.access_token) =>
               (auth.is_valid.value <=> auth.access_token.exp.value > now)

\* C24: authenticate() of either strategy ends in success, InvalidAuth or
\* CannotConnect and nothing else; in particular after a nonce or login
\* response with a status from 400 to 499 other than 401.
C24_AuthenticateOutcomes ==
    LET allowed == \/ auth.outcome.kind = "return"
                   \/ auth.outcome.type \in {"InvalidAuth", "CannotConnect"}
    IN (auth.op = "authenticate" /\ auth.pc = "done") =>
           /\ allowed
           /\ (/\ auth.requests # <<>>
               /\ auth.requests[Len(auth.requests)] \in {"nonce", "password", "jwt_login"}
               /\ auth.status \in 400..499 \ {401}) => allowed

LastRequest(requests) == requests[Len(requests)]

EntirelyNumeric(backup_id) ==
    Len(backup_id) >= 1 /\ \A i \in 1..Len(backup_id) : IsDigit(backup_id[i])

\* C26: get_backup, create_backup, update_backup and delete_backup called
\* with an id that is not entirely numeric end in ValueError without having
\* sent any request.
C26_InvalidIdNoRequest ==
    (api.pc # "idle" /\ ~EntirelyNumeric(api.backup_id)) =>
        /\ api.requests = <<>>
        /\ api.pc = "done"
        /\ api.outcome = ApiRaises("ValueError")

\* The requests of the current __make_api_request call that are r.
Count(requests, r) == Cardinality({i \in 1..Len(requests) : requests[i] = r})

\* C27: a login is started only when session-auth or session-nonce is
\* missing or expired, never when both are present and unexpired, and at
\* most once within one call of __make_api_request, its retry included.
C27_AtMostOneLogin ==
    [][LET login == /\ api'.requests # api.requests
                    /\ api'.requests # <<>>
                    /\ LastRequest(api'.requests) = "nonce"
           t == Strftime(now, api.utcoffset)
           valid == /\ api.session_auth # ""
                    /\ ~ExpiredAt(api.session_auth_expiration, t)
                    /\ api.session_nonce # ""
                    /\ ~ExpiredAt(api.session_nonce_expiration, t)
       IN login => (/\ api.password
                    /\ ~valid
                    /\ Count(api'.requests, "nonce") = 1
                    /\ Count(api'.requests, api'.endpoint) = 0)]_vars

\* C28: after "Missing XSRF Token" the request is sent once more, with the
\* refreshed token in its header, and never a third time; when the retry is
\* answered with "Missing XSRF Token" again the call ends in an error.
C28_SingleRetryThenError ==
    LET retried == Count(api.requests, "refresh") > 0
    IN /\ Count(api.requests, api.endpoint) <= 2
       /\ Count(api.requests, "refresh") <= 1
       /\ (retried /\ api.pc = "request") =>
              (api.xsrf_token # "" /\ api.header_xsrf = api.xsrf_token)
       /\ (retried /\ api.pc = "done" /\ api.status = 400 /\ api.missing) =>
              api.outcome.kind = "raise"

\* C29: create_backup sends the start POST only after a progress state whose
\* phase is idle or terminal; with any other phase it ends in RuntimeError
\* and the POST is not sent.
C29_StartOnlyWhenIdle ==
    LET idle == {"No active backup", "Backup_Complete", "Error"}
    IN /\ (api.endpoint = "run" \/ Count(api.requests, "run") > 0) =>
              (api.operation = "create_backup" /\ api.phase \in idle)
       /\ (api.phase \notin idle \cup {"none"}) =>
              /\ api.pc = "done"
              /\ api.outcome = ApiRaises("RuntimeError")
              /\ api.endpoint = "ProgressState"
              /\ Count(api.requests, "run") = 0

\* create_backup has ended on a progress state in a running phase.
C29_AlreadyRunning ==
    /\ api.operation = "create_backup" /\ api.pc = "done"
    /\ api.phase = "Backup_ProcessingFiles"
    /\ api.outcome = ApiRaises("RuntimeError")
    /\ api.requests # <<>> /\ LastRequest(api.requests) = "ProgressState"

\* C30: a response to the API request with status 401, or with the login
\* page as its final URL, ends the call in InvalidAuth at once: nothing is
\* returned and no further request, login or retry, is sent.
C30_UnauthorizedEndsCall ==
    [][(/\ api.pc = "request"
        /\ api' # api
        /\ api'.status = 401 \/ api'.login_page) =>
           (/\ api'.pc = "done"
            /\ api'.outcome = ApiRaises("InvalidAuth")
            /\ api'.requests = api.requests)]_vars

\* The API request was answered 200 from the login page and the call ended
\* in InvalidAuth.
C30_LoginPageAnswered ==
    /\ api.pc = "done" /\ api.status = 200 /\ api.login_page
    /\ api.requests # <<>> /\ LastRequest(api.requests) = api.endpoint
    /\ api.outcome = ApiRaises("InvalidAuth")

\* C31: the published last-status flag is false without a last-error
\* timestamp, true with a last-error timestamp and no last-finished one,
\* and with both it is true exactly when the error is the later of the two.
C31_LastStatusRule ==
    LET error == model.payload.LastErrorDate
        finished == model.payload.LastBackupFinished
    IN model.pc = "sensor_data" =>
          model.last_backup_status =
              IF error.kind = "none" THEN FALSE
              ELSE IF finished.kind = "none" THEN TRUE
              ELSE error.t > finished.t

\* A job whose last error and last finish carry the same timestamp is
\* published as not failed.
C31_SameTimestamp ==
    /\ model.pc = "sensor_data"
    /\ model.payload.LastErrorDate.kind = "date"
    /\ model.payload.LastErrorDate = model.payload.LastBackupFinished
    /\ ~model.last_backup_status

\* C32: parsing a payload and serialising it again gives back the values of
\* the mapped fields: timestamps, durations, sizes and schedule times.
C32_RoundTrip ==
    model.pc = "serialized" =>
        /\ model.serialized.LastBackupFinished = model.payload.LastBackupFinished
        /\ model.serialized.LastErrorDate = model.payload.LastErrorDate
        /\ model.serialized.LastBackupDuration = model.payload.LastBackupDuration
        /\ model.serialized.SourceFilesSize = model.payload.SourceFilesSize
        /\ model.serialized.Time = model.payload.Time
        /\ model.serialized.LastRun = model.payload.LastRun

\* C33: every start-backup call that ends in a failure has created a
\* notification carrying the error message and fired backup_failed.
C33_EveryFailureNotified ==
    (service.pc = "done" /\ service.error # "") =>
        /\ service.notifications = <<service.message>>
        /\ \E i \in DOMAIN service.events : service.events[i] = "backup_failed"

\* C35: the waits of the scheduled-start detection are 1, 2, 4, ... seconds:
\* the n-th wait of a check lasts 2^(n-1) seconds (delays are counted in
\* units of 500 ms).
C35_WaitsFromOneSecond ==
    \A i \in TaskIds :
        (task[i].kind = "sched" /\ task[i].pc = "sleep") =>
            task[i].delay = 2 * 2 ^ (task[i].retry)

\* C34: a fast-poll check that finds the job still running while the state
\* is ACTIVE ends after its one progress query: it has fetched no job, it
\* starts no request, it publishes nothing, and the state, both timer
\* handles and their timers, the next-run time and the scheduled-for time
\* stay as they were.
C34_RunningCheckChangesNothing ==
    [][(/\ ev'.op = "fast_running"
        /\ task[ev'.actor].kind = "fast" /\ task[ev'.actor].pc = "get_progress"
        /\ monitoring_state = "ACTIVE")
       => (/\ UNCHANGED <<coordVars, data>>
           /\ task[ev'.actor].fetches = 0 /\ task[ev'.actor].sleeps = 0
           /\ \A j \in TaskIds :
                 task'[j].kind # "none" =>
                    \E k \in TaskIds \ {ev'.actor} :
                       [task'[j] EXCEPT !.seq = 0] = [task[k] EXCEPT !.seq = 0]
           /\ Cardinality({j \in TaskIds : task'[j].kind # "none"})
                 = Cardinality({j \in TaskIds : task[j].kind # "none"}) - 1)]_vars

\* A fast-poll check has just found the job running, with the coordinator
\* in ACTIVE and its interval timer pending.
C34_StillRunning ==
    /\ ev.op = "fast_running"
    /\ monitoring_state = "ACTIVE"
    /\ remove_active_backup_monitor_listener /\ interval_timers = 1

\* C36: in every reachable state the monitoring state is SCHEDULED exactly
\* when a one-shot timer is pending, and then the scheduled-for time is the
\* run time every pending timer was armed for (its time minus the buffer).
C36_ScheduledIffTimerPending ==
    /\ monitoring_state = "SCHEDULED" <=> PendingPointTimers > 0
    /\ monitoring_state = "SCHEDULED" =>
          \A at \in FireTimes :
             point_timers[at] > 0 => monitoring_scheduled_for = at - SCHEDULE_BUFFER

\* The coordinator is SCHEDULED after a step that cancelled the timer of
\* the state it left and armed the one-shot timer of the run time.
C36_Rescheduled ==
    /\ monitoring_state = "SCHEDULED"
    /\ monitoring_scheduled_for # NONE
    /\ point_timers[monitoring_scheduled_for + SCHEDULE_BUFFER] = 1
    /\ PendingPointTimers = 1
    /\ ev.cancelled = 1 /\ ev.armed = 1

\* C37: in every reachable state the fast-interval timer is pending exactly
\* when the monitoring state is ACTIVE.
C37_IntervalTimerIffActive ==
    interval_timers > 0 <=> monitoring_state = "ACTIVE"

\* A call of the server has just failed.
CallFailed == ev.op \in {"error", "recover_failed"}

\* A snapshot with current_status = False has just been published.
PublishedNotRunning == ev.op \in Publishing /\ data.has /\ ~data.cur

\* C38: when the coordinator is ACTIVE and the job has finished for good,
\* the coordinator eventually leaves ACTIVE; and unless a call fails, it
\* eventually publishes a snapshot with current_status = False and is
\* eventually SCHEDULED, unless it has published with no future run time at
\* hand.
C38_ActiveEnds ==
    /\ (monitoring_state = "ACTIVE" /\ job = "finished")
          ~> (monitoring_state # "ACTIVE")
    /\ (monitoring_state = "ACTIVE" /\ job = "finished")
          ~> (PublishedNotRunning \/ CallFailed)
    /\ (monitoring_state = "ACTIVE" /\ job = "finished")
          ~> (\/ monitoring_state = "SCHEDULED"
              \/ CallFailed
              \/ /\ PublishedNotRunning
                 /\ ~(next_backup_execution # NONE /\ next_backup_execution > now))

\* The job has finished, and the completion sequence of a fast-poll check
\* has published current_status = False and left the coordinator SCHEDULED
\* with no interval timer.
C38_CompletedAndScheduled ==
    /\ job = "finished"
    /\ ev.op = "fast_final" /\ PublishedNotRunning
    /\ monitoring_state = "SCHEDULED" /\ interval_timers = 0
    /\ PendingPointTimers = 1

\* C39: a call of make_request that followed a redirect and whose chain
\* ended in a response that is no redirect returns that response, not the
\* 302 of its first hop.
C39_ReturnsFinalResponse ==
    (http.pc = "done" /\ http.outcome.kind = "return" /\ http.redirect_count > 0)
        => http.outcome.status # 302

====
